---- MODULE Spec2Model ----
(***************************************************************************)
(* State-machine model of parts of the vue-next runtime:                   *)
(*   - props/emits resolution    (runtime-core/src/componentProps.ts)      *)
(*   - vnode blocks, normalize   (runtime-core/src/vnode.ts)               *)
(*   - SSR buffers, renderToString (server-renderer/src/index.ts)          *)
(*   - watch                     (runtime-core apiWatch)                   *)
(*   - createAsyncComponent      (runtime-core apiAsyncComponent)          *)
(* Each subsystem has its own specification (SpecProps, SpecVNode, ...)    *)
(* over its own variables; the other variables are held at their initial   *)
(* values.                                                                 *)
(***************************************************************************)
EXTENDS Integers, Sequences, FiniteSets, TLC

VARIABLES
    \* ---- componentProps.ts: one component instance ----
    instance,      \* [type, props, attrs, propsProxy, patchFlag]
    rawProps,      \* the rawProps argument of the last resolveProps call
    resolved,      \* how the last call ended: "none" | "ok" | "early" | "throw"
    localProps,    \* the local `props` object of the last call
    proxyBefore,   \* history: instance.propsProxy before the last call
    \* ---- vnode.ts ----
    vnodes,        \* the descriptors created so far
    blockStack,    \* stack of open blocks: [tracking, nodes]
    shouldTrack,   \* module-level flag of vnode.ts
    vresult,       \* the last cloneVNode / normalizeVNode call: [op, arg, argEl, result]
    blockLog,      \* history: [open, closed], the openBlock calls not yet closed and the block just closed
    \* ---- server-renderer: one buffer of createBuffer ----
    ssrBuffer,     \* [buffer, appendable, hasAsync] of createBuffer
    pushed,        \* history: the items pushed so far, in push order
    returned,      \* what innerRenderComponent returned: "none" | "buffer" | "promise"
    \* ---- server-renderer: one renderToString call ----
    comps,         \* the component tree: c -> [kind, asyncSetup, body]
    promises,      \* [setup, then, all]: the promises of each component
    rts,           \* renderToString: [phase, awaited, out]
    settled,       \* history: the order in which setup promises settled
    unrolledPending, \* history: unrollBuffer ran on a buffer holding a promise
    \* ---- apiWatch: one watcher on one ref ----
    watcher,       \* the closure of doWatch: options, instance, effect flags, oldValue, cleanup
    source,        \* the value of the watched ref
    wlog,          \* history: what ran, in order
    jobQueue,      \* jobs queued with queueJob
    postQueue,     \* callbacks queued with queuePostFlushCb
    writes,        \* number of writes to the ref so far
    \* ---- createAsyncComponent: one wrapper instance ----
    asyncOpts,     \* [loading, error, delay, timeout]: the options
    loaderPromise, \* the promise of loader(): "none" | "pending" | "resolved" | "rejected"
    asyncInst,     \* the wrapper instance: refs loaded, error, delayed; timers
    now,           \* the clock, in milliseconds
    displayed,     \* what the wrapper currently renders
    shown,         \* history: the successive outputs since mount
    resolvedEarly, \* history: the loader resolved while delayed was still set
    reported,      \* history: the errors handed to the error handler, in order
    alog,          \* history: mount, timer and loader events, in order
    \* ---- componentProxy.ts: one instance behind its render proxy ----
    proxyInst,     \* [data, renderContext, props, user] of the instance
    lastSet,       \* the last write through the proxy: [n, key, ok, before]
    lastGet,       \* the read that followed the last write: [key, result, done]
    \* ---- server-renderer helpers: one value rendered as an attribute ----
    escInput,      \* the value handed to renderAttr / renderClass / renderStyle
    emitted,       \* [op, text, first, value, passes]: what was emitted and the re-escaped value
    \* ---- compiler-core vFor.ts: one v-for directive ----
    forExp,        \* dir.exp: absent or the content of the expression
    forNode,       \* what transformFor did: the FOR node or the error reported
    \* ---- compiler-core errors.ts: one createCompilerError call ----
    errArgs,       \* [code, loc, dev, browser]: the arguments and the build flags
    compilerError, \* the error created: [message, code, loc]
    \* ---- compiler-sfc compileScript.ts: one compileScript call ----
    descriptor,    \* [script, scriptSetup]: the statements of the two blocks
    sfcOptions,    \* [refSugar]: the options argument
    compiled,      \* the outcome: [status, message, imports, refBindings]
    \* ---- mergeComponentOptions: one parent and one child definition ----
    mergeArgs,     \* [to, own, mixins]: the parent options, the own fields of the child, its mixins
    merged,        \* [done, options]: the result of mergeComponentOptions
    \* ---- compiler-ssr: the second (codegen) pass ----
    context,       \* the transform context: [options, body, helpers, currentString]
    pushCalls,     \* history: the pushStringPart / pushStatement calls made on the context, in order
    ast,           \* the root node: [children, helpers, ssrHelpers, codegenNode, transformed]
    \* ---- apiWatch: one run of the deep getter ----
    heap,          \* the watched value: [edges, root], an edge being <<object, member>>
    seen,          \* the `seen` set of traverse
    callStack,     \* the active traverse calls, outermost first: [value, next]
    visits,        \* history: how often traverse went past its guard, per object
    phase          \* "ready" | "running" | "done" | "overflow"

propsVars == <<instance, rawProps, resolved, localProps, proxyBefore>>
vnodeVars == <<vnodes, blockStack, shouldTrack, vresult, blockLog>>
bufVars == <<ssrBuffer, pushed, returned>>
ssrVars == <<comps, promises, rts, settled, unrolledPending>>
watchVars == <<watcher, source, wlog, jobQueue, postQueue, writes>>
asyncVars == <<asyncOpts, loaderPromise, asyncInst, now, displayed, shown, resolvedEarly, reported, alog>>
proxyVars == <<proxyInst, lastSet, lastGet>>
helpersVars == <<escInput, emitted>>
vforVars == <<forExp, forNode>>
errorsVars == <<errArgs, compilerError>>
sfcVars == <<descriptor, sfcOptions, compiled>>
mergeVars == <<mergeArgs, merged>>
genVars == <<context, pushCalls, ast>>
travVars == <<heap, seen, callStack, visits, phase>>

\* what the actions of one subsystem leave unchanged
propsRest == <<vnodeVars, bufVars, ssrVars, watchVars, asyncVars, proxyVars, helpersVars, vforVars, errorsVars, sfcVars, mergeVars, genVars, travVars>>
vnodeRest == <<propsVars, bufVars, ssrVars, watchVars, asyncVars, proxyVars, helpersVars, vforVars, errorsVars, sfcVars, mergeVars, genVars, travVars>>
bufRest == <<propsVars, vnodeVars, ssrVars, watchVars, asyncVars, proxyVars, helpersVars, vforVars, errorsVars, sfcVars, mergeVars, genVars, travVars>>
ssrRest == <<propsVars, vnodeVars, bufVars, watchVars, asyncVars, proxyVars, helpersVars, vforVars, errorsVars, sfcVars, mergeVars, genVars, travVars>>
watchRest == <<propsVars, vnodeVars, bufVars, ssrVars, asyncVars, proxyVars, helpersVars, vforVars, errorsVars, sfcVars, mergeVars, genVars, travVars>>
asyncRest == <<propsVars, vnodeVars, bufVars, ssrVars, watchVars, proxyVars, helpersVars, vforVars, errorsVars, sfcVars, mergeVars, genVars, travVars>>
proxyRest == <<propsVars, vnodeVars, bufVars, ssrVars, watchVars, asyncVars, helpersVars, vforVars, errorsVars, sfcVars, mergeVars, genVars, travVars>>
helpersRest == <<propsVars, vnodeVars, bufVars, ssrVars, watchVars, asyncVars, proxyVars, vforVars, errorsVars, sfcVars, mergeVars, genVars, travVars>>
vforRest == <<propsVars, vnodeVars, bufVars, ssrVars, watchVars, asyncVars, proxyVars, helpersVars, errorsVars, sfcVars, mergeVars, genVars, travVars>>
errorsRest == <<propsVars, vnodeVars, bufVars, ssrVars, watchVars, asyncVars, proxyVars, helpersVars, vforVars, sfcVars, mergeVars, genVars, travVars>>
sfcRest == <<propsVars, vnodeVars, bufVars, ssrVars, watchVars, asyncVars, proxyVars, helpersVars, vforVars, errorsVars, mergeVars, genVars, travVars>>
mergeRest == <<propsVars, vnodeVars, bufVars, ssrVars, watchVars, asyncVars, proxyVars, helpersVars, vforVars, errorsVars, sfcVars, genVars, travVars>>
genRest == <<propsVars, vnodeVars, bufVars, ssrVars, watchVars, asyncVars, proxyVars, helpersVars, vforVars, errorsVars, sfcVars, mergeVars, travVars>>
travRest == <<propsVars, vnodeVars, bufVars, ssrVars, watchVars, asyncVars, proxyVars, helpersVars, vforVars, errorsVars, sfcVars, mergeVars, genVars>>

(***************************************************************************)
(* Strings are sequences of one-character strings so that camelize,        *)
(* hyphenate, isOn and slice are computed, not assumed.                    *)
(***************************************************************************)
LowerChars == <<"a","b","c","d","e","f","g","h","i","j","k","l","m",
                "n","o","p","q","r","s","t","u","v","w","x","y","z">>
UpperChars == <<"A","B","C","D","E","F","G","H","I","J","K","L","M",
                "N","O","P","Q","R","S","T","U","V","W","X","Y","Z">>

IndexIn(c, seq) ==
    IF \E i \in 1..Len(seq) : seq[i] = c
    THEN CHOOSE i \in 1..Len(seq) : seq[i] = c
    ELSE 0

isLower(c) == IndexIn(c, LowerChars) > 0
isUpper(c) == IndexIn(c, UpperChars) > 0
\* \w of a JavaScript regular expression, over the characters the model uses
isWordChar(c) == isLower(c) \/ isUpper(c) \/ c = "_"
toUpperCase(c) == IF isLower(c) THEN UpperChars[IndexIn(c, LowerChars)] ELSE c
toLowerCase(c) == IF isUpper(c) THEN LowerChars[IndexIn(c, UpperChars)] ELSE c

RECURSIVE camelize(_)
\* str.replace(/-(\w)/g, (_, c) => c.toUpperCase())
camelize(s) ==
    IF s = <<>> THEN <<>>
    ELSE IF s[1] = "-" /\ Len(s) >= 2 /\ isWordChar(s[2])
         THEN <<toUpperCase(s[2])>> \o camelize(SubSeq(s, 3, Len(s)))
         ELSE <<s[1]>> \o camelize(Tail(s))

RECURSIVE hyphenateFrom(_, _)
hyphenateFrom(s, i) ==
    IF i > Len(s) THEN <<>>
    ELSE (IF isUpper(s[i]) /\ i > 1 /\ isWordChar(s[i - 1])
          THEN <<"-", toLowerCase(s[i])>>
          ELSE <<toLowerCase(s[i])>>) \o hyphenateFrom(s, i + 1)

\* str.replace(/\B([A-Z])/g, '-$1').toLowerCase()
hyphenate(s) == hyphenateFrom(s, 1)

\* /^on[^a-z]/.test(key)
isOn(key) == Len(key) >= 3 /\ key[1] = "o" /\ key[2] = "n" /\ ~isLower(key[3])

\* the reserved keys named by the comment at componentProps.ts:141
isReservedProp(key) == key \in {<<"k","e","y">>, <<"r","e","f">>}

\* own-property test on an object modelled as a function
hasOwn(obj, key) == key \in DOMAIN obj

EMPTY_OBJ == <<>>

\* obj[key] = val
SetKey(obj, key, val) ==
    [k \in (DOMAIN obj) \cup {key} |-> IF k = key THEN val ELSE obj[k]]

\* delete obj[key]
DeleteKey(obj, key) == [k \in (DOMAIN obj) \ {key} |-> obj[k]]

(***************************************************************************)
(* JavaScript values that props carry.                                     *)
(***************************************************************************)
StrV(s) == [t |-> "string", v |-> s]
BoolV(b) == [t |-> "boolean", v |-> IF b THEN <<"1">> ELSE <<"0">>]
FnV(name) == [t |-> "function", v |-> name]
Undefined == [t |-> "undefined", v |-> <<>>]

isFunction(val) == val.t = "function"

\* calling a default factory FnV(n) returns the string n
CallFn(f) == StrV(f.v)


(***************************************************************************)
(* Component definitions (instance.type): declared props and emits.        *)
(* props: form "none" | "array" (names) | "object" (entries name -> opt);  *)
(* an opt is null or {type, default}; `type` is the list of constructor    *)
(* names (a single constructor is the one-element list, for which          *)
(* getTypeIndex gives the same 0 / -1).                                    *)
(***************************************************************************)
K_key == <<"k","e","y">>
K_ref == <<"r","e","f">>
K_msg == <<"m","s","g">>
K_foo == <<"f","o","o">>
K_flag == <<"f","l","a","g">>
K_fooBar == <<"f","o","o","B","a","r">>
K_foo_bar == <<"f","o","o","-","b","a","r">>
K_onClick == <<"o","n","C","l","i","c","k">>
K_bad == <<"$","b","a","d">>
E_click == <<"c","l","i","c","k">>
E_Click == <<"C","l","i","c","k">>
E_get == <<"g","e","t">>
E_set == <<"s","e","t">>

NoProps == [form |-> "none", names |-> <<>>, entries |-> <<>>]
ArrayProps(names) == [form |-> "array", names |-> names, entries |-> <<>>]
ObjectProps(entries) == [form |-> "object", names |-> <<>>, entries |-> entries]

NullOpt == [isNull |-> TRUE, type |-> <<>>, hasDefault |-> FALSE, default |-> Undefined]
Opt(type) == [isNull |-> FALSE, type |-> type, hasDefault |-> FALSE, default |-> Undefined]
OptDefault(type, d) == [isNull |-> FALSE, type |-> type, hasDefault |-> TRUE, default |-> d]
Entry(name, opt) == [name |-> name, opt |-> opt]

NoEmits == [form |-> "none", names |-> <<>>]
ArrayEmits(names) == [form |-> "array", names |-> names]
ObjectEmits(names) == [form |-> "object", names |-> names]

CompType(id, props, emits, functional) ==
    [id |-> id, props |-> props, emits |-> emits, functional |-> functional]

CompTypes == {
    CompType("A", ArrayProps(<<K_msg, K_foo_bar, K_bad>>), NoEmits, FALSE),
    CompType("B", ArrayProps(<<K_msg>>), ArrayEmits(<<E_click>>), FALSE),
    CompType("C", ObjectProps(<<
                    Entry(K_flag, Opt(<<"Boolean">>)),
                    Entry(K_foo_bar, Opt(<<"Boolean", "String">>)),
                    Entry(K_msg, Opt(<<"String", "Boolean">>)),
                    Entry(K_foo, OptDefault(<<"Boolean">>, FnV(<<"d","f">>))) >>),
                  ObjectEmits(<<E_click>>), FALSE),
    CompType("D", ObjectProps(<<
                    Entry(K_flag, OptDefault(<<"Boolean">>, BoolV(TRUE))),
                    Entry(K_msg, OptDefault(<<>>, FnV(<<"d","m">>))),
                    Entry(K_foo, NullOpt) >>),
                  ArrayEmits(<<E_Click>>), FALSE),
    CompType("E", NoProps, ArrayEmits(<<E_click>>), FALSE),
    CompType("F", NoProps, NoEmits, TRUE),
    CompType("G", ArrayProps(<<K_msg>>), NoEmits, TRUE),
    CompType("H", ArrayProps(<<K_msg>>), ArrayEmits(<<E_click, E_get>>), FALSE) }

(***************************************************************************)
(* normalizePropsOptions                                                   *)
(***************************************************************************)
validatePropName(key) == key = <<>> \/ key[1] # "$"

\* getTypeIndex(type, expectedTypes): -1 when absent
getTypeIndex(type, expectedTypes) ==
    IF \E i \in 1..Len(expectedTypes) : expectedTypes[i] = type
    THEN (CHOOSE i \in 1..Len(expectedTypes) :
              /\ expectedTypes[i] = type
              /\ \A j \in 1..(i - 1) : expectedTypes[j] # type) - 1
    ELSE -1

\* the normalized prop of an array-syntax declaration: EMPTY_OBJ (no flags)
EmptyNormalizedProp ==
    [isNull |-> FALSE, type |-> <<>>, hasDefault |-> FALSE, default |-> Undefined,
     shouldCast |-> FALSE, shouldCastTrue |-> FALSE]

\* mutant: Boolean's precedence over String is forgotten
shouldCastTrueOf_NoPrecedence(booleanIndex, stringIndex) == stringIndex < 0

shouldCastTrueOf(booleanIndex, stringIndex) ==
    stringIndex < 0 \/ booleanIndex < stringIndex

NormalizedProp(opt) ==
    IF opt.isNull
    THEN [isNull |-> TRUE, type |-> <<>>, hasDefault |-> FALSE, default |-> Undefined,
          shouldCast |-> FALSE, shouldCastTrue |-> FALSE]
    ELSE LET booleanIndex == getTypeIndex("Boolean", opt.type)
             stringIndex == getTypeIndex("String", opt.type)
         IN [isNull |-> FALSE, type |-> opt.type, hasDefault |-> opt.hasDefault,
             default |-> opt.default,
             shouldCast |-> booleanIndex > -1,
             shouldCastTrue |-> shouldCastTrueOf(booleanIndex, stringIndex)]

needsCast(opt) ==
    /\ ~opt.isNull
    /\ (getTypeIndex("Boolean", opt.type) > -1 \/ opt.hasDefault)

RECURSIVE NormalizeArray(_, _, _)
NormalizeArray(names, i, normalized) ==
    IF i > Len(names) THEN normalized
    ELSE LET normalizedKey == camelize(names[i])
         IN NormalizeArray(names, i + 1,
                IF validatePropName(normalizedKey)
                THEN SetKey(normalized, normalizedKey, EmptyNormalizedProp)
                ELSE normalized)

RECURSIVE NormalizeObject(_, _, _)
NormalizeObject(entries, i, acc) ==
    IF i > Len(entries) THEN acc
    ELSE LET normalizedKey == camelize(entries[i].name)
             opt == entries[i].opt
         IN NormalizeObject(entries, i + 1,
                IF validatePropName(normalizedKey)
                THEN [options |-> SetKey(acc.options, normalizedKey, NormalizedProp(opt)),
                      needCastKeys |-> IF needsCast(opt)
                                       THEN Append(acc.needCastKeys, normalizedKey)
                                       ELSE acc.needCastKeys]
                ELSE acc)

\* returns [options, needCastKeys]; for undeclared props (EMPTY_ARR) both are
\* left empty and resolveProps never reads them (hasDeclaredProps is false)
normalizePropsOptions(raw) ==
    IF raw.form = "none" THEN [options |-> EMPTY_OBJ, needCastKeys |-> <<>>]
    ELSE IF raw.form = "array"
         THEN [options |-> NormalizeArray(raw.names, 1, EMPTY_OBJ), needCastKeys |-> <<>>]
         ELSE NormalizeObject(raw.entries, 1, [options |-> EMPTY_OBJ, needCastKeys |-> <<>>])

(***************************************************************************)
(* normalizeEmitsOptions                                                   *)
(***************************************************************************)
SeqToSet(s) == {s[i] : i \in 1..Len(s)}

\* Object.defineProperty(options, '_n', normalized): `normalized` (event name
\* -> null) is passed where a property descriptor is expected, so an event
\* named get or set makes the descriptor's accessor null, which is a TypeError
definePropertyThrows(descriptorKeys) ==
    E_get \in descriptorKeys \/ E_set \in descriptorKeys

\* [defined, keys, throws]: the own keys of the normalized emits record
normalizeEmitsOptions(options) ==
    IF options.form = "none"
    THEN [defined |-> FALSE, keys |-> {}, throws |-> FALSE]
    ELSE IF options.form = "array"
         THEN [defined |-> TRUE, keys |-> SeqToSet(options.names),
               throws |-> definePropertyThrows(SeqToSet(options.names))]
         ELSE [defined |-> TRUE, keys |-> SeqToSet(options.names), throws |-> FALSE]

isListener(emitKeys, key) ==
    IF ~isOn(key) THEN FALSE
    ELSE LET eventName == SubSeq(key, 3, Len(key))
         IN \/ eventName \in emitKeys
            \/ (<<toLowerCase(eventName[1])>> \o Tail(eventName)) \in emitKeys


(***************************************************************************)
(* resolveProps                                                            *)
(***************************************************************************)
NoProxy == [present |-> FALSE, map |-> EMPTY_OBJ]

\* setProp: props[key] = val, and propsProxy[key] = val when there is a proxy
setProp(st, key, val) ==
    [st EXCEPT !.props = SetKey(st.props, key, val),
               !.proxy = IF st.proxy.present
                         THEN [present |-> TRUE, map |-> SetKey(st.proxy.map, key, val)]
                         ELSE st.proxy]

\* one iteration of `for (const key in rawProps)`
RouteKey(st, key, value, hasDeclaredProps, options, emits) ==
    IF isReservedProp(key) THEN st
    ELSE IF hasDeclaredProps /\ hasOwn(options, camelize(key))
         THEN setProp(st, camelize(key), value)
         ELSE IF ~emits.defined \/ ~isListener(emits.keys, key)
              THEN [st EXCEPT !.attrs = SetKey(st.attrs, key, value),
                              !.attrsDefined = TRUE]
              ELSE st

RECURSIVE RouteLoop(_, _, _, _, _, _)
RouteLoop(entries, i, st, hasDeclaredProps, options, emits) ==
    IF i > Len(entries) THEN st
    ELSE RouteLoop(entries, i + 1,
                   RouteKey(st, entries[i].key, entries[i].value,
                            hasDeclaredProps, options, emits),
                   hasDeclaredProps, options, emits)

\* the default-value step of one needCastKeys iteration
ApplyDefault(st, key, opt, currentValue) ==
    IF opt.hasDefault /\ currentValue = Undefined
    THEN setProp(st, key, IF isFunction(opt.default) THEN CallFn(opt.default)
                          ELSE opt.default)
    ELSE st

\* the boolean-casting step of one needCastKeys iteration
CastBoolean(st, key, opt, currentValue) ==
    IF opt.shouldCast
    THEN IF ~hasOwn(st.props, key) /\ ~opt.hasDefault
         THEN setProp(st, key, BoolV(FALSE))
         ELSE IF opt.shouldCastTrue
                 /\ (currentValue = StrV(<<>>) \/ currentValue = StrV(hyphenate(key)))
              THEN setProp(st, key, BoolV(TRUE))
              ELSE st
    ELSE st

\* one iteration of the needCastKeys loop; currentValue is read once, before
\* the default is applied
CastKey(st, key, options) ==
    LET opt == options[key]
        currentValue == IF hasOwn(st.props, key) THEN st.props[key] ELSE Undefined
    IN IF opt.isNull THEN st
       ELSE CastBoolean(ApplyDefault(st, key, opt, currentValue), key, opt, currentValue)

RECURSIVE CastLoop(_, _, _, _)
CastLoop(needCastKeys, i, st, options) ==
    IF i > Len(needCastKeys) THEN st
    ELSE CastLoop(needCastKeys, i + 1, CastKey(st, needCastKeys[i], options), options)

\* patchFlag === 0 || patchFlag & PatchFlags.FULL_PROPS, the patch flag being
\* the set of its bits
isFullPropsPass_FlagOnly(patchFlag) == "FULL_PROPS" \in patchFlag

isFullPropsPass(patchFlag) == patchFlag = {} \/ "FULL_PROPS" \in patchFlag

\* delete from the props proxy the keys the fresh props lack
PruneProxy(st, hasDeclaredProps, patchFlag) ==
    IF hasDeclaredProps /\ st.proxy.present /\ isFullPropsPass(patchFlag)
    THEN [st EXCEPT !.proxy = [present |-> TRUE,
                               map |-> [k \in (DOMAIN st.proxy.map) \cap (DOMAIN st.props)
                                            |-> st.proxy.map[k]]]]
    ELSE st

\* which object becomes instance.props
FinalProps(type, hasDeclaredProps, st) ==
    IF type.functional /\ ~hasDeclaredProps
    THEN (IF st.attrsDefined THEN st.attrs ELSE EMPTY_OBJ)
    ELSE st.props

\* resolveProps(instance, rawProps): the instance after the call and how the
\* call ended
resolveProps(inst, raw) ==
    LET hasDeclaredProps == inst.type.props.form # "none"
        normalized == normalizePropsOptions(inst.type.props)
        emits == normalizeEmitsOptions(inst.type.emits)
        st0 == [props |-> EMPTY_OBJ, attrs |-> EMPTY_OBJ, attrsDefined |-> FALSE,
                proxy |-> inst.propsProxy]
        st1 == IF raw.isNull THEN st0
               ELSE RouteLoop(raw.entries, 1, st0, hasDeclaredProps,
                              normalized.options, emits)
        st2 == IF hasDeclaredProps
               THEN CastLoop(normalized.needCastKeys, 1, st1, normalized.options)
               ELSE st1
        st3 == PruneProxy(st2, hasDeclaredProps, inst.patchFlag)
    IN IF raw.isNull /\ ~hasDeclaredProps
       THEN [outcome |-> "early", local |-> EMPTY_OBJ,
             inst |-> [inst EXCEPT !.props = EMPTY_OBJ, !.attrs = EMPTY_OBJ]]
       ELSE IF emits.throws
            THEN [outcome |-> "throw", local |-> EMPTY_OBJ, inst |-> inst]
            ELSE [outcome |-> "ok", local |-> st3.props,
                  inst |-> [inst EXCEPT
                              !.props = FinalProps(inst.type, hasDeclaredProps, st3),
                              !.attrs = IF st3.attrsDefined THEN st3.attrs ELSE EMPTY_OBJ,
                              !.propsProxy = st3.proxy]]

(***************************************************************************)
(* Inputs of resolveProps: raw props objects, in insertion order.          *)
(***************************************************************************)
MaxRaw == 3

RawEntry(key, value) == [key |-> key, value |-> value]

RawEntries == {
    RawEntry(K_key, StrV(<<"k">>)),
    RawEntry(K_msg, StrV(<<"h","i">>)),
    RawEntry(K_msg, StrV(<<>>)),
    RawEntry(K_foo, StrV(<<"b","a","r">>)),
    RawEntry(K_onClick, FnV(<<"f","n">>)),
    RawEntry(K_foo_bar, StrV(<<>>)),
    RawEntry(K_fooBar, StrV(<<"f","o","o","-","b","a","r">>)),
    RawEntry(K_flag, StrV(<<>>)),
    RawEntry(K_flag, StrV(<<"f","l","a","g">>)) }

\* a fixed enumeration order of the keys; foo-bar and fooBar (which camelize
\* to the same name) may come in either order
KeyRank(key) ==
    CASE key = K_key -> 1
      [] key = K_msg -> 2
      [] key = K_foo -> 3
      [] key = K_onClick -> 4
      [] key = K_foo_bar -> 5
      [] key = K_fooBar -> 5
      [] key = K_flag -> 6
      [] OTHER -> 7

RawObjects ==
    { s \in UNION { [1..n -> RawEntries] : n \in 0..MaxRaw } :
        \A i, j \in 1..Len(s) :
            i < j => /\ s[i].key # s[j].key
                     /\ KeyRank(s[i].key) <= KeyRank(s[j].key) }

RawInputs ==
    {[isNull |-> TRUE, entries |-> <<>>]}
        \cup {[isNull |-> FALSE, entries |-> s] : s \in RawObjects}

PatchFlagInputs == {{}, {"FULL_PROPS"}, {"PROPS"}, {"PROPS", "FULL_PROPS"}}

(***************************************************************************)
(* SpecProps: an instance of one component definition is created and its   *)
(* props are resolved at mount (setupComponent), before any props proxy    *)
(* exists.                                                                 *)
(***************************************************************************)
InitProps ==
    /\ \E type \in CompTypes :
          instance = [type |-> type, props |-> EMPTY_OBJ, attrs |-> EMPTY_OBJ,
                      propsProxy |-> NoProxy, patchFlag |-> {}]
    /\ rawProps = [isNull |-> TRUE, entries |-> <<>>]
    /\ resolved = "none"
    /\ localProps = EMPTY_OBJ
    /\ proxyBefore = NoProxy

\* the props subsystem at rest
IdleProps ==
    /\ instance = [type |-> CompType("A", NoProps, NoEmits, FALSE), props |-> EMPTY_OBJ,
                   attrs |-> EMPTY_OBJ, propsProxy |-> NoProxy, patchFlag |-> {}]
    /\ rawProps = [isNull |-> TRUE, entries |-> <<>>]
    /\ resolved = "none"
    /\ localProps = EMPTY_OBJ
    /\ proxyBefore = NoProxy

\* instance.vnode has been set (and so its patch flag); then
\* resolveProps(instance, rawProps) is called
ResolveProps ==
    \E raw \in RawInputs, patchFlag \in PatchFlagInputs :
        /\ resolved = "none"
        /\ LET r == resolveProps([instance EXCEPT !.patchFlag = patchFlag], raw)
           IN /\ instance' = r.inst
              /\ resolved' = r.outcome
              /\ localProps' = r.local
        /\ rawProps' = raw
        /\ proxyBefore' = instance.propsProxy
        /\ UNCHANGED propsRest

NextProps == ResolveProps

(***************************************************************************)
(* SpecUpdate: the instance has been mounted and setup() has received the  *)
(* props proxy, which wraps the props object of the mount-time call; then  *)
(* the parent re-renders any number of times and resolveProps is called    *)
(* with new raw props and the patch flag of the new vnode.                 *)
(***************************************************************************)
MaxUpdateRaw == 2

UpdateEntries == {e \in RawEntries : e.key \in {K_msg, K_foo_bar, K_flag}}

UpdateInputs ==
    {[isNull |-> TRUE, entries |-> <<>>]}
        \cup {[isNull |-> FALSE, entries |-> s] :
                s \in {r \in UNION { [1..n -> UpdateEntries] : n \in 0..MaxUpdateRaw } :
                         \A i, j \in 1..Len(r) :
                            i < j => /\ r[i].key # r[j].key
                                     /\ KeyRank(r[i].key) <= KeyRank(r[j].key)}}

UpdateTypes == {t \in CompTypes : t.id \in {"A", "B", "C"}}

\* instance.propsProxy as created by setup from instance.props
Mounted(type, raw) ==
    LET r == resolveProps([type |-> type, props |-> EMPTY_OBJ, attrs |-> EMPTY_OBJ,
                           propsProxy |-> NoProxy, patchFlag |-> {}], raw)
    IN  [r EXCEPT !.inst.propsProxy = [present |-> TRUE, map |-> r.inst.props]]

InitUpdate ==
    /\ \E type \in UpdateTypes, raw \in UpdateInputs :
          /\ Mounted(type, raw).outcome = "ok"
          /\ instance = Mounted(type, raw).inst
          /\ localProps = Mounted(type, raw).local
          /\ rawProps = raw
    /\ resolved = "ok"
    /\ proxyBefore = NoProxy

\* the update of a mounted component: resolveProps(instance, nextRawProps)
UpdateProps ==
    \E raw \in UpdateInputs, patchFlag \in PatchFlagInputs :
        /\ instance.propsProxy.present
        /\ LET r == resolveProps([instance EXCEPT !.patchFlag = patchFlag], raw)
           IN /\ instance' = r.inst
              /\ resolved' = r.outcome
              /\ localProps' = r.local
        /\ rawProps' = raw
        /\ proxyBefore' = instance.propsProxy
        /\ UNCHANGED propsRest

NextUpdate == UpdateProps



(***************************************************************************)
(* Claims about resolveProps                                               *)
(***************************************************************************)
\* the names a definition validly declares as props, camelized
DeclaredPropNames(type) ==
    LET names == IF type.props.form = "array"
                 THEN SeqToSet(type.props.names)
                 ELSE {type.props.entries[i].name : i \in 1..Len(type.props.entries)}
    IN {camelize(n) : n \in {m \in names : m = <<>> \/ m[1] # "$"}}

DeclaredEmitNames(type) == SeqToSet(type.emits.names)

\* on+EventName whose event (as written, or with its first letter lowered) is
\* a declared emit
MatchesDeclaredEmit(type, key) ==
    /\ isOn(key)
    /\ \E e \in DeclaredEmitNames(type) :
          \/ key = <<"o","n">> \o e
          \/ key = <<"o","n", toUpperCase(e[1])>> \o Tail(e)

RawKeys(raw) == {raw.entries[i].key : i \in 1..Len(raw.entries)}
RawValue(raw, key) ==
    raw.entries[CHOOSE i \in 1..Len(raw.entries) : raw.entries[i].key = key].value

\* where the claim sends one raw key: "dropped" | "props" | "neither" | "attrs"
C1_Destination(type, key) ==
    IF key \in {K_key, K_ref} THEN "dropped"
    ELSE IF camelize(key) \in DeclaredPropNames(type) THEN "props"
         ELSE IF MatchesDeclaredEmit(type, key) THEN "neither"
              ELSE "attrs"

\* the routing of C1 on the objects the call filled: the local `props` object
\* and instance.attrs (for a functional component without declared props
\* instance.props is afterwards the attrs object itself)
C1_Routed ==
    /\ \A key \in RawKeys(rawProps) :
          LET dest == C1_Destination(instance.type, key)
          IN /\ (key \in DOMAIN instance.attrs) <=> (dest = "attrs")
             /\ dest = "attrs" => instance.attrs[key] = RawValue(rawProps, key)
             /\ (camelize(key) \in DOMAIN localProps) <=> (dest = "props")
    /\ DOMAIN instance.attrs \subseteq RawKeys(rawProps)
    /\ DOMAIN localProps \subseteq DeclaredPropNames(instance.type)

C1_ExampleRaw ==
    [isNull |-> FALSE,
     entries |-> <<RawEntry(K_msg, StrV(<<"h","i">>)),
                   RawEntry(K_foo, StrV(<<"b","a","r">>)),
                   RawEntry(K_onClick, FnV(<<"f","n">>))>>]

\* props ['msg'] (and others), no declared emits, raw {msg, foo, onClick}
C1_Example ==
    (instance.type.emits.form = "none" /\ ~instance.type.functional
     /\ instance.type.props.form = "array" /\ rawProps = C1_ExampleRaw)
        => /\ instance.props = (K_msg :> StrV(<<"h","i">>))
           /\ instance.attrs = (K_foo :> StrV(<<"b","a","r">>)
                                @@ K_onClick :> FnV(<<"f","n">>))

\* C1: for every raw props map and every declared props/emits shape the call
\* routes each raw key to exactly one destination: key and ref are dropped; a
\* key whose camelized form is a declared prop goes to props; otherwise a
\* listener key matching a declared emit goes to neither; every other key goes
\* to attrs under its original name (with props ['msg'], no emits, raw
\* {msg, foo, onClick}: props = {msg}, attrs = {foo, onClick}).
C1_RoutesEveryKey ==
    resolved # "none" =>
        /\ resolved \in {"ok", "early"}
        /\ C1_Routed
        /\ C1_Example

\* C1, restricted to the calls that return: the routing itself is as claimed
C1_RoutesEveryKeyWhenReturned ==
    resolved \in {"ok", "early"} => C1_Routed /\ C1_Example

\* the state C1's counterexample is about: the call threw while normalizing
\* an array of emits that names the event `get`
C1_Thrown == resolved = "throw" /\ E_get \in DeclaredEmitNames(instance.type)

\* ---- C2 ----
C2_Present(raw, key) ==
    \E i \in 1..Len(raw.entries) :
        raw.entries[i].key \notin {K_key, K_ref} /\ camelize(raw.entries[i].key) = key

\* the incoming value of a declared prop: that of the last raw key that
\* camelizes to it
C2_Incoming(raw, key) ==
    LET idx == {i \in 1..Len(raw.entries) :
                   raw.entries[i].key \notin {K_key, K_ref}
                   /\ camelize(raw.entries[i].key) = key}
    IN raw.entries[CHOOSE i \in idx : \A j \in idx : j <= i].value

C2_HasType(opt, t) == \E i \in 1..Len(opt.type) : opt.type[i] = t

C2_BooleanBeforeString(opt) ==
    \/ ~C2_HasType(opt, "String")
    \/ \E i \in 1..Len(opt.type) :
          opt.type[i] = "Boolean" /\ \A j \in 1..i : opt.type[j] # "String"

C2_BooleanEntries(type) ==
    IF type.props.form # "object" THEN {}
    ELSE {e \in SeqToSet(type.props.entries) :
             ~e.opt.isNull /\ C2_HasType(e.opt, "Boolean")
             /\ camelize(e.name) \in DeclaredPropNames(type)}

C2_Absent(e) == ~C2_Present(rawProps, camelize(e.name))

C2_EmptyOrOwnName(e) ==
    /\ C2_Present(rawProps, camelize(e.name))
    /\ C2_Incoming(rawProps, camelize(e.name)) \in
           {StrV(<<>>), StrV(hyphenate(camelize(e.name)))}

C2_DefaultOf(e) ==
    IF e.opt.default.t = "function" THEN StrV(e.opt.default.v) ELSE e.opt.default

C2_Prop(e) ==
    IF camelize(e.name) \in DOMAIN instance.props
    THEN instance.props[camelize(e.name)]
    ELSE Undefined

\* C2: after resolveProps a declared prop whose type set includes Boolean is
\* false when absent without default; true when its incoming value is '' or
\* its own hyphenated name and String is not in the type set or Boolean
\* precedes String; its default (the call result of a function default) when
\* absent with a default.
C2_BooleanCasting ==
    resolved = "ok" =>
        \A e \in C2_BooleanEntries(instance.type) :
            /\ (C2_Absent(e) /\ ~e.opt.hasDefault) => C2_Prop(e) = BoolV(FALSE)
            /\ (C2_EmptyOrOwnName(e) /\ C2_BooleanBeforeString(e.opt))
                   => C2_Prop(e) = BoolV(TRUE)
            /\ (C2_Absent(e) /\ e.opt.hasDefault) => C2_Prop(e) = C2_DefaultOf(e)

\* all three cases in one call: flag absent without default, fooBar given its
\* own hyphenated name with type [Boolean, String], foo absent with a factory
C2_Witness ==
    /\ resolved = "ok"
    /\ instance.type.id = "C"
    /\ rawProps.entries = <<RawEntry(K_fooBar, StrV(<<"f","o","o","-","b","a","r">>))>>
    /\ instance.props[K_flag] = BoolV(FALSE)
    /\ instance.props[K_fooBar] = BoolV(TRUE)
    /\ instance.props[K_foo] = StrV(<<"d","f">>)


(***************************************************************************)
(* vnode.ts: descriptors, blocks, clone and normalize.                     *)
(* Descriptors live in a heap `vnodes`; a descriptor's identity is its     *)
(* index. 0 stands for null in the fields that hold host handles.          *)
(***************************************************************************)
MaxVNodes == 3
MaxBlockDepth == 2
MaxMounted == 1

\* vnode types: a tag string, a component object, a component function, or one
\* of the symbols Fragment, Text, Comment, Portal
VType(kind, name) == [kind |-> kind, name |-> name]
Fragment == VType("symbol", "Fragment")
Text == VType("symbol", "Text")
Comment == VType("symbol", "Comment")
Portal == VType("symbol", "Portal")

\* children arguments: null, a string, an array of descriptors, a slots
\* object, a function
NullChildren == [kind |-> "null", ids |-> <<>>, text |-> ""]
TextChildren(t) == [kind |-> "text", ids |-> <<>>, text |-> t]
ArrayChildren(ids) == [kind |-> "array", ids |-> ids, text |-> ""]
SlotsChildren(name) == [kind |-> "slots", ids |-> <<>>, text |-> name]
FunctionChildren(name) == [kind |-> "function", ids |-> <<>>, text |-> name]

\* props arguments: null or an object with optional key, ref and class (an
\* array of strings before createVNode, the one normalized string after it)
NullProps == [isNull |-> TRUE, key |-> "", ref |-> "", class |-> <<>>]
VProps(key, ref, class) == [isNull |-> FALSE, key |-> key, ref |-> ref, class |-> class]

RECURSIVE JoinWithSpace(_)
\* res += normalizeClass(value[i]) + ' ' for each element
JoinWithSpace(value) ==
    IF value = <<>> THEN <<>>
    ELSE Head(value) \o <<" ">> \o JoinWithSpace(Tail(value))

RECURSIVE TrimStart(_)
TrimStart(s) == IF s # <<>> /\ Head(s) = " " THEN TrimStart(Tail(s)) ELSE s

RECURSIVE TrimEnd(_)
TrimEnd(s) ==
    IF s # <<>> /\ s[Len(s)] = " " THEN TrimEnd(SubSeq(s, 1, Len(s) - 1)) ELSE s

\* normalizeClass of an array of strings
normalizeClass(value) == TrimEnd(TrimStart(JoinWithSpace(value)))

\* the class normalization of createVNode (style objects pass through
\* normalizeStyle unchanged and are not modelled)
NormalizeProps(props) ==
    IF props.isNull THEN props
    ELSE [props EXCEPT !.class = <<normalizeClass(props.class)>>]

\* the bitmap of the vnode type
TypeShapeFlag(type) ==
    IF type.kind = "string" THEN {"ELEMENT"}
    ELSE IF type.kind = "object" THEN {"STATEFUL_COMPONENT"}
         ELSE IF type.kind = "function" THEN {"FUNCTIONAL_COMPONENT"}
              ELSE {}

\* normalizeChildren: the stored children and the shape bit they add
normalizeChildren(children) ==
    IF children.kind = "null" THEN [children |-> NullChildren, flag |-> {}]
    ELSE IF children.kind = "array"
         THEN [children |-> children, flag |-> {"ARRAY_CHILDREN"}]
         ELSE IF children.kind = "slots"
              THEN [children |-> children, flag |-> {"SLOTS_CHILDREN"}]
              ELSE IF children.kind = "function"
                   THEN [children |-> SlotsChildren(children.text),
                         flag |-> {"SLOTS_CHILDREN"}]
                   ELSE [children |-> children, flag |-> {"TEXT_CHILDREN"}]

NoDynamicChildren == [kind |-> "null", nodes |-> <<>>]
EMPTY_ARR == [kind |-> "EMPTY_ARR", nodes |-> <<>>]

\* trackDynamicNode: push onto the innermost open block, unless that block was
\* opened with tracking disabled or no block is open
trackDynamicNode(st, id) ==
    LET n == Len(st.blockStack)
    IN IF n > 0 /\ st.blockStack[n].tracking
       THEN [st EXCEPT !.blockStack[n].nodes = Append(@, id)]
       ELSE st

\* mutant: only a patch flag makes createVNode track a descriptor
tracksNode_FlagOnly(shouldTrackNow, patchFlag, shapeFlag) ==
    shouldTrackNow /\ patchFlag # {}

\* does createVNode track the descriptor it made
tracksNode(shouldTrackNow, patchFlag, shapeFlag) ==
    /\ shouldTrackNow
    /\ (patchFlag # {}
        \/ "STATEFUL_COMPONENT" \in shapeFlag
        \/ "FUNCTIONAL_COMPONENT" \in shapeFlag)

\* createVNode(type, props, children, patchFlag, dynamicProps): the new state
\* of the module and the id of the descriptor
createVNode(st, type, props, children, patchFlag, dynamicProps) ==
    LET p == NormalizeProps(props)
        nc == normalizeChildren(children)
        shapeFlag == TypeShapeFlag(type) \cup nc.flag
        vnode == [type |-> type, props |-> p,
                  key |-> IF p.isNull THEN "" ELSE p.key,
                  ref |-> IF p.isNull THEN "" ELSE p.ref,
                  children |-> nc.children,
                  component |-> 0, suspense |-> 0,
                  el |-> 0, anchor |-> 0, target |-> 0,
                  shapeFlag |-> shapeFlag, patchFlag |-> patchFlag,
                  dynamicProps |-> dynamicProps,
                  dynamicChildren |-> NoDynamicChildren,
                  appContext |-> 0]
        id == Len(st.vnodes) + 1
        st1 == [st EXCEPT !.vnodes = Append(@, vnode)]
    IN [st |-> IF tracksNode(st.shouldTrack, patchFlag, shapeFlag)
               THEN trackDynamicNode(st1, id)
               ELSE st1,
        id |-> id]

\* mutant: createBlock leaves tracking on while it builds its root
blockRootShouldTrack_On == TRUE

\* shouldTrack while createBlock builds its own root
blockRootShouldTrack == FALSE

\* createBlock: build the root with tracking suppressed, pop the block, give
\* the root the popped list, then track the root in the enclosing block
createBlock(st, type, props, children, patchFlag, dynamicProps) ==
    LET made == createVNode([st EXCEPT !.shouldTrack = blockRootShouldTrack],
                            type, props, children, patchFlag, dynamicProps)
        st1 == [made.st EXCEPT !.shouldTrack = TRUE]
        n == Len(st1.blockStack)
        \* blockStack.pop(): undefined on an empty stack, null for a block
        \* opened with tracking disabled
        trackedNodes == IF n > 0 /\ st1.blockStack[n].tracking
                        THEN st1.blockStack[n].nodes
                        ELSE <<>>
        st2 == [st1 EXCEPT !.blockStack = SubSeq(@, 1, n - 1),
                           !.vnodes[made.id].dynamicChildren =
                               IF Len(trackedNodes) > 0
                               THEN [kind |-> "list", nodes |-> trackedNodes]
                               ELSE EMPTY_ARR]
    IN [st |-> trackDynamicNode(st2, made.id), id |-> made.id]

\* a clone that keeps the element of its source
cloneVNode_KeepsEl(st, id) ==
    LET clone == [st.vnodes[id] EXCEPT !.component = 0, !.suspense = 0, !.anchor = 0]
    IN [st |-> [st EXCEPT !.vnodes = Append(@, clone)], id |-> Len(st.vnodes) + 1]

\* cloneVNode
cloneVNode(st, id) ==
    LET vnode == st.vnodes[id]
        clone == [type |-> vnode.type, props |-> vnode.props,
                  key |-> vnode.key, ref |-> vnode.ref,
                  children |-> vnode.children,
                  target |-> vnode.target,
                  shapeFlag |-> vnode.shapeFlag, patchFlag |-> vnode.patchFlag,
                  dynamicProps |-> vnode.dynamicProps,
                  dynamicChildren |-> vnode.dynamicChildren,
                  appContext |-> vnode.appContext,
                  component |-> 0, suspense |-> 0, el |-> 0, anchor |-> 0]
    IN [st |-> [st EXCEPT !.vnodes = Append(@, clone)], id |-> Len(st.vnodes) + 1]

\* mutant: the mounted descriptor is the one passed through
passesThrough_Mounted(vnode) == vnode.el # 0

\* the test of normalizeVNode on a child that is already a descriptor
passesThrough(vnode) == vnode.el = 0

\* normalizeVNode(child), child being null, an array, a descriptor or a
\* primitive
normalizeVNode(st, child) ==
    IF child.kind = "null"
    THEN createVNode(st, Comment, NullProps, NullChildren, {}, <<>>)
    ELSE IF child.kind = "array"
         THEN createVNode(st, Fragment, NullProps, ArrayChildren(child.ids), {}, <<>>)
         ELSE IF child.kind = "vnode"
              THEN IF passesThrough(st.vnodes[child.id])
                   THEN [st |-> st, id |-> child.id]
                   ELSE cloneVNode(st, child.id)
              ELSE createVNode(st, Text, NullProps, TextChildren(child.text), {}, <<>>)


(***************************************************************************)
(* SpecVNode: any sequence of openBlock / createVNode / createBlock calls.  *)
(* SpecReuse: descriptors are created, mounted by the renderer and used    *)
(* again through cloneVNode / normalizeVNode.                              *)
(***************************************************************************)
VArgs(type, props, children, patchFlag, dynamicProps) ==
    [type |-> type, props |-> props, children |-> children,
     patchFlag |-> patchFlag, dynamicProps |-> dynamicProps]

\* argument lists of createVNode / createBlock: a portal without patch flag,
\* an element with props, text and a patch flag, a stateful and a functional
\* component
CreateInputs == {
    VArgs(Portal, NullProps, ArrayChildren(<<>>), {}, <<>>),
    VArgs(VType("string", "p"),
          VProps("k", "r", << <<"a">>, <<"b">> >>), TextChildren("t"),
          {"CLASS"}, <<"class">>),
    VArgs(VType("object", "Comp"), NullProps, NullChildren, {}, <<>>),
    VArgs(VType("function", "Func"), NullProps, FunctionChildren("f"), {}, <<>>) }

VNodeState == [vnodes |-> vnodes, blockStack |-> blockStack, shouldTrack |-> shouldTrack]

SetVNodeState(st) ==
    /\ vnodes' = st.vnodes
    /\ blockStack' = st.blockStack
    /\ shouldTrack' = st.shouldTrack

VResult(op, arg, argEl, result) ==
    [op |-> op, arg |-> arg, argEl |-> argEl, result |-> result]

\* history: no createBlock call has just returned
NoBlock == [depthBefore |-> 0, tracking |-> FALSE, made |-> <<>>,
            root |-> 0, depthAfter |-> 0]

InitVNode ==
    /\ vnodes = <<>>
    /\ blockStack = <<>>
    /\ shouldTrack = TRUE
    /\ vresult = VResult("none", 0, 0, 0)
    /\ blockLog = [open |-> <<>>, closed |-> NoBlock]

IdleVNode == InitVNode

\* history: descriptor id was created at the level of the innermost openBlock
\* call that has no createBlock yet
logCreated(open, id, isRoot) ==
    IF open = <<>> THEN open
    ELSE [open EXCEPT ![Len(open)].made = Append(@, [id |-> id, root |-> isRoot])]

\* history: createBlock returned descriptor id and left the stack at depth
\* depthAfter; the root is created at the level of the enclosing call
logClosed(open, id, depthAfter) ==
    IF open = <<>> THEN [open |-> open, closed |-> NoBlock]
    ELSE [open |-> logCreated(SubSeq(open, 1, Len(open) - 1), id, TRUE),
          closed |-> [depthBefore |-> open[Len(open)].depthBefore,
                      tracking |-> open[Len(open)].tracking,
                      made |-> open[Len(open)].made,
                      root |-> id, depthAfter |-> depthAfter]]

\* openBlock(disableTracking)
OpenBlock ==
    \E disableTracking \in BOOLEAN :
        /\ Len(blockStack) < MaxBlockDepth
        /\ blockStack' = Append(blockStack,
                                [tracking |-> ~disableTracking, nodes |-> <<>>])
        /\ vresult' = VResult("none", 0, 0, 0)
        /\ blockLog' = [open |-> Append(blockLog.open,
                                        [depthBefore |-> Len(blockStack),
                                         tracking |-> ~disableTracking,
                                         made |-> <<>>]),
                        closed |-> NoBlock]
        /\ UNCHANGED <<vnodes, shouldTrack>>
        /\ UNCHANGED vnodeRest

CreateVNode ==
    \E a \in CreateInputs :
        /\ Len(vnodes) < MaxVNodes
        /\ LET r == createVNode(VNodeState, a.type, a.props, a.children,
                                a.patchFlag, a.dynamicProps)
           IN /\ SetVNodeState(r.st)
              /\ vresult' = VResult("none", 0, 0, 0)
              /\ blockLog' = [open |-> logCreated(blockLog.open, r.id, FALSE),
                              closed |-> NoBlock]
        /\ UNCHANGED vnodeRest

CreateBlock ==
    \E a \in CreateInputs :
        /\ Len(vnodes) < MaxVNodes
        /\ LET r == createBlock(VNodeState, a.type, a.props, a.children,
                                a.patchFlag, a.dynamicProps)
           IN /\ SetVNodeState(r.st)
              /\ vresult' = VResult("none", 0, 0, 0)
              /\ blockLog' = logClosed(blockLog.open, r.id, Len(r.st.blockStack))
        /\ UNCHANGED vnodeRest

CloneVNode ==
    \E id \in 1..Len(vnodes) :
        /\ Len(vnodes) < MaxVNodes
        /\ LET r == cloneVNode(VNodeState, id)
           IN /\ SetVNodeState(r.st)
              /\ vresult' = VResult("cloneVNode", id, vnodes[id].el, r.id)
        /\ UNCHANGED blockLog
        /\ UNCHANGED vnodeRest

\* the children handed to normalizeVNode
NormalizeInputs ==
    {[kind |-> "null", id |-> 0, ids |-> <<>>, text |-> ""],
     [kind |-> "array", id |-> 0, ids |-> <<>>, text |-> ""],
     [kind |-> "primitive", id |-> 0, ids |-> <<>>, text |-> "1"]}
        \cup {[kind |-> "vnode", id |-> i, ids |-> <<>>, text |-> ""] :
                 i \in 1..Len(vnodes)}

NormalizeVNode ==
    \E child \in NormalizeInputs :
        /\ child.kind = "vnode" \/ Len(vnodes) < MaxVNodes
        /\ child.kind = "vnode" /\ ~passesThrough(vnodes[child.id])
               => Len(vnodes) < MaxVNodes
        /\ LET r == normalizeVNode(VNodeState, child)
           IN /\ SetVNodeState(r.st)
              /\ vresult' = VResult("normalizeVNode:" \o child.kind, child.id,
                                    IF child.kind = "vnode" THEN vnodes[child.id].el ELSE 0,
                                    r.id)
        /\ UNCHANGED blockLog
        /\ UNCHANGED vnodeRest

\* the renderer mounts a descriptor: el is set, and with it the anchor of a
\* fragment, the target of a portal, the instance of a component
Mount ==
    \E id \in 1..Len(vnodes) :
        /\ vnodes[id].el = 0
        /\ Cardinality({i \in 1..Len(vnodes) : vnodes[i].el # 0}) < MaxMounted
        /\ vnodes' = [vnodes EXCEPT
                        ![id].el = 1,
                        ![id].anchor = IF vnodes[id].type = Fragment THEN 1 ELSE 0,
                        ![id].target = IF vnodes[id].type = Portal THEN 1 ELSE 0,
                        ![id].component =
                            IF vnodes[id].type.kind \in {"object", "function"}
                            THEN 1 ELSE 0]
        /\ vresult' = VResult("none", 0, 0, 0)
        /\ UNCHANGED <<blockStack, shouldTrack, blockLog>>
        /\ UNCHANGED vnodeRest

\* render functions building blocks
NextVNode ==
    \/ OpenBlock
    \/ CreateVNode
    \/ CreateBlock

\* descriptors created (outside any open block), mounted by the renderer and
\* used again through cloneVNode / normalizeVNode
InitReuse == InitVNode

NextReuse ==
    \/ CreateVNode
    \/ CreateBlock
    \/ Mount
    \/ CloneVNode
    \/ NormalizeVNode

\* ---- C3 ----
\* C3 as claimed: normalizeVNode passes a mounted descriptor (el set) through
\* as the same object and returns a fresh clone for one not yet mounted
C3_MountedPassesThrough ==
    vresult.op = "normalizeVNode:vnode" =>
        /\ vresult.argEl # 0 => vresult.result = vresult.arg
        /\ vresult.argEl = 0 => vresult.result # vresult.arg

\* C3 (amended): normalizeVNode passes a descriptor that is not yet mounted
\* (el null) through unchanged as the same object, and returns a fresh clone,
\* with el unset, for a descriptor that is already mounted (el set)
C3_UnmountedPassesThrough ==
    vresult.op = "normalizeVNode:vnode" =>
        /\ vresult.argEl = 0 => vresult.result = vresult.arg
        /\ vresult.argEl # 0 =>
              /\ vresult.result # vresult.arg
              /\ vresult.result = Len(vnodes)
              /\ vnodes[vresult.result].el = 0
              /\ vnodes[vresult.result].type = vnodes[vresult.arg].type
              /\ vnodes[vresult.arg].el # 0

\* a mounted descriptor was normalized and came back as a new descriptor
C3_Witness ==
    /\ vresult.op = "normalizeVNode:vnode"
    /\ vresult.argEl # 0
    /\ vresult.result # vresult.arg

\* ---- C15 ----
C15_CopiedFields ==
    {"type", "props", "key", "ref", "children", "shapeFlag", "patchFlag",
     "dynamicProps", "dynamicChildren", "appContext"}

\* C15 as claimed: the descriptor returned by cloneVNode has component,
\* suspense, el, anchor and target unset and every other field equal to the
\* source's, and the source is left unchanged
C15_CloneResetsTarget ==
    [][vresult'.op = "cloneVNode" =>
          LET src == vnodes[vresult'.arg]
              clone == vnodes'[vresult'.result]
          IN  /\ vnodes'[vresult'.arg] = src
              /\ vresult'.result # vresult'.arg
              /\ clone.component = 0 /\ clone.suspense = 0
              /\ clone.el = 0 /\ clone.anchor = 0 /\ clone.target = 0
              /\ \A f \in C15_CopiedFields : clone[f] = src[f]]_vnodeVars

\* C15 (amended): the descriptor returned by cloneVNode has component,
\* suspense, el and anchor unset and every other field, the portal target
\* included, equal to the source's, and the source is left unchanged
C15_CloneKeepsTarget ==
    [][vresult'.op = "cloneVNode" =>
          LET src == vnodes[vresult'.arg]
              clone == vnodes'[vresult'.result]
          IN  /\ vnodes'[vresult'.arg] = src
              /\ vresult'.result # vresult'.arg
              /\ clone.component = 0 /\ clone.suspense = 0
              /\ clone.el = 0 /\ clone.anchor = 0
              /\ clone.target = src.target
              /\ \A f \in C15_CopiedFields : clone[f] = src[f]]_vnodeVars

\* a mounted portal was cloned: the clone has no el and has the target
C15_Witness ==
    /\ vresult.op = "cloneVNode"
    /\ vresult.argEl # 0
    /\ vnodes[vresult.arg].type = Portal
    /\ vnodes[vresult.arg].target # 0
    /\ vnodes[vresult.result].el = 0
    /\ vnodes[vresult.result].target = vnodes[vresult.arg].target

\* ---- C4 ----
\* C4: whatever the type and patch flag of the block root, the descriptor
\* returned by createBlock never appears in its own dynamicChildren
C4_BlockNeverListsItself ==
    \A id \in 1..Len(vnodes) :
        \A i \in 1..Len(vnodes[id].dynamicChildren.nodes) :
            vnodes[id].dynamicChildren.nodes[i] # id

\* createBlock returned a root that createVNode would have tracked (a patch
\* flag or a component), with a non-empty dynamicChildren list
C4_Witness ==
    \E id \in 1..Len(vnodes) :
        /\ vnodes[id].dynamicChildren.kind = "list"
        /\ \/ vnodes[id].patchFlag # {}
           \/ vnodes[id].type.kind \in {"object", "function"}

\* ---- C25 ----
\* of the descriptors created at the level of a block: those with a patch
\* flag, the components, and the roots of the blocks nested directly in it
C25_Expected(made) ==
    LET listed(d) == \/ d.root
                     \/ vnodes[d.id].patchFlag # {}
                     \/ vnodes[d.id].type.kind \in {"object", "function"}
        kept == SelectSeq(made, listed)
    IN [i \in 1..Len(kept) |-> kept[i].id]

\* C25: in a well-nested sequence of openBlock / createVNode / createBlock
\* calls, the dynamicChildren of a block opened with tracking holds exactly,
\* in creation order and each once, the descriptors created at its own level
\* that carry a patch flag or are components and the roots of the blocks
\* nested directly in it; nothing created at another level is listed; and
\* createBlock leaves the stack at the depth it had before the matching
\* openBlock
C25_BlockListsItsLevel ==
    blockLog.closed.root # 0 =>
        LET block == blockLog.closed
            nodes == vnodes[block.root].dynamicChildren.nodes
            own == {block.made[k].id : k \in 1..Len(block.made)}
        IN /\ block.depthAfter = block.depthBefore
           /\ Len(blockStack) = block.depthBefore
           /\ block.tracking =>
                  /\ nodes = C25_Expected(block.made)
                  /\ \A i, j \in 1..Len(nodes) : i < j => nodes[i] < nodes[j]
                  /\ \A i \in 1..Len(nodes) : nodes[i] \in own

\* createBlock has just closed a block that lists the root of a block nested
\* in it, and that nested block lists a descriptor of its own level which the
\* outer one does not
C25_Witness ==
    /\ blockLog.closed.root = 3
    /\ blockLog.closed.tracking
    /\ blockLog.closed.made = <<[id |-> 2, root |-> TRUE]>>
    /\ vnodes[3].dynamicChildren.nodes = <<2>>
    /\ vnodes[2].dynamicChildren.nodes = <<1>>

(***************************************************************************)
(* server-renderer/src/index.ts: the SSR buffer.  A buffer item is a       *)
(* string (a sequence of characters), a resolved nested buffer (an array)  *)
(* or a promise of a buffer.                                               *)
(***************************************************************************)
MaxPush == 4

StrItem(s) == [k |-> "string", v |-> s]
ArrItem(items) == [k |-> "array", v |-> items]
PromiseItem(p) == [k |-> "promise", v |-> p]

isString(item) == item.k = "string"
isArray(item) == item.k = "array"
isPromise(item) == item.k = "promise"

\* index.ts:17-19
createBuffer == [buffer |-> <<>>, appendable |-> FALSE, hasAsync |-> FALSE]

\* index.ts:27, the test that merges a string into the last entry
coalesces_Never(b, item) == FALSE

coalesces(b, item) == b.appendable /\ isString(item)

\* index.ts:33, the test that marks the buffer as holding a promise
marksAsync_NonString(item) == ~isString(item)

marksAsync(item) == ~isString(item) /\ ~isArray(item)

\* index.ts:28  buffer[buffer.length - 1] += item : string concatenation;
\* on a last entry that is not a string JavaScript stringifies it first.
AppendToLast(buffer, item) ==
    LET n == Len(buffer)
        last == buffer[n]
    IN  [buffer EXCEPT ![n] =
            IF isString(last) THEN StrItem(last.v \o item.v)
            ELSE [k |-> "string", v |-> <<"?">> \o item.v]]

\* index.ts:25-37
push(b, item) ==
    [buffer |-> IF coalesces(b, item) THEN AppendToLast(b.buffer, item)
                ELSE Append(b.buffer, item),
     appendable |-> isString(item),
     hasAsync |-> IF marksAsync(item) THEN TRUE ELSE b.hasAsync]

\* index.ts:98 the test that decides between Promise.all(buffer) and buffer
returnsPromise_Never(b) == FALSE

returnsPromise(b) == b.hasAsync

\* index.ts:41-52 ; an entry that is still a promise has no length and
\* contributes the empty string
RECURSIVE unrollBuffer(_)
unrollBuffer(buffer) ==
    IF buffer = <<>> THEN <<>>
    ELSE LET item == Head(buffer)
         IN  (CASE isString(item) -> item.v
                [] isArray(item) -> unrollBuffer(item.v)
                [] OTHER -> <<>>) \o unrollBuffer(Tail(buffer))

\* the items one ssrRender may push in the buffer specification
PushInputs ==
    { StrItem(<<>>), StrItem(<<"a">>), StrItem(<<"b">>),
      ArrItem(<<>>), ArrItem(<<StrItem(<<"c">>)>>),
      PromiseItem(<<"all", 0>>) }

InitBuffer ==
    /\ ssrBuffer = createBuffer
    /\ pushed = <<>>
    /\ returned = "none"

IdleBuffer == InitBuffer

\* one push call made by the component's ssrRender (index.ts:88)
Push ==
    /\ returned = "none"
    /\ Len(pushed) < MaxPush
    /\ \E item \in PushInputs :
        /\ ssrBuffer' = push(ssrBuffer, item)
        /\ pushed' = Append(pushed, item)
    /\ UNCHANGED returned
    /\ UNCHANGED bufRest

\* the return of innerRenderComponent (index.ts:98-101)
InnerRenderReturn ==
    /\ returned = "none"
    /\ returned' = IF returnsPromise(ssrBuffer) THEN "promise" ELSE "buffer"
    /\ UNCHANGED <<ssrBuffer, pushed>>
    /\ UNCHANGED bufRest

NextBuffer == Push \/ InnerRenderReturn

(***************************************************************************)
(* C5, C7                                                                  *)
(***************************************************************************)
RECURSIVE C5_Strings(_)
C5_Strings(items) ==
    IF items = <<>> THEN <<>>
    ELSE (IF isString(Head(items)) THEN Head(items).v ELSE <<>>)
         \o C5_Strings(Tail(items))

\* C5: after any sequence of push calls no two adjacent entries of the
\* buffer are both strings, and the strings of the buffer, read in order,
\* concatenate to the concatenation of all pushed strings in push order.
C5_CoalescedAndComplete ==
    /\ \A i \in 1..(Len(ssrBuffer.buffer) - 1) :
          ~(isString(ssrBuffer.buffer[i]) /\ isString(ssrBuffer.buffer[i + 1]))
    /\ C5_Strings(ssrBuffer.buffer) = C5_Strings(pushed)

\* strings pushed back to back, around an array and around a promise
C5_Witness ==
    /\ Len(pushed) = 4
    /\ isString(pushed[1]) /\ isString(pushed[2]) /\ pushed[2].v # <<>>
    /\ ~isString(pushed[3])
    /\ isString(pushed[4])
    /\ Len(ssrBuffer.buffer) = 3

C7_PushedAsync == \E i \in 1..Len(pushed) : ~isString(pushed[i]) /\ ~isArray(pushed[i])

\* C7: the render step returns its buffer synchronously iff no item that is
\* neither a string nor an array was pushed, and the hasAsync flag stays set
\* after such a push whatever is pushed later.
C7_SyncIffNoAsyncPush ==
    /\ ssrBuffer.hasAsync <=> C7_PushedAsync
    /\ returned # "none" => (returned = "buffer" <=> ~C7_PushedAsync)

\* a promise pushed first, then strings and arrays, then the return
C7_Witness ==
    /\ returned = "promise"
    /\ Len(pushed) >= 3
    /\ isPromise(pushed[1])
    /\ isArray(pushed[2])
    /\ isString(pushed[Len(pushed)])

(***************************************************************************)
(* server-renderer/src/index.ts: renderToString over a component tree.     *)
(* A component is [kind, asyncSetup, body]; the body is what its ssrRender *)
(* does: push a string, or push(renderComponent(child)).  A promise is     *)
(* named <<"then", c>> (the promise of res.then in renderComponent of c)   *)
(* or <<"all", c>> (the Promise.all of c's buffer).                        *)
(***************************************************************************)
MaxAsync == 3

PushOp(s) == [op |-> "push", item |-> StrItem(s)]
ChildOp(c) == [op |-> "child", c |-> c]
SSRComp(kind, async, body) == [kind |-> kind, asyncSetup |-> async, body |-> body]

\* root 1 renders a, <2>, b, <3>, c ; 2 renders <4>, d ; 3 renders e ;
\* 4 renders f, or is a functional component
TreeOf(asyncSet, leafKind) ==
    << SSRComp("ssrRender", 1 \in asyncSet,
               <<PushOp(<<"a">>), ChildOp(2), PushOp(<<"b">>), ChildOp(3), PushOp(<<"c">>)>>),
       SSRComp("ssrRender", 2 \in asyncSet, <<ChildOp(4), PushOp(<<"d">>)>>),
       SSRComp("ssrRender", 3 \in asyncSet, <<PushOp(<<"e">>)>>),
       SSRComp(leafKind, 4 \in asyncSet, <<PushOp(<<"f">>)>>) >>

Trees ==
    { TreeOf(a, k) : a \in {x \in SUBSET (1..4) : Cardinality(x) <= MaxAsync},
                     k \in {"ssrRender", "function"} }

NoItem == [k |-> "none", v |-> <<>>]
NoPromises(n) ==
    [setup |-> [c \in 1..n |-> "none"],
     then |-> [c \in 1..n |-> [st |-> "none", ret |-> NoItem]],
     all |-> [c \in 1..n |-> [st |-> "none", buffer |-> <<>>, val |-> <<>>]]]

\* state and value of a promise; the promise of res.then follows the promise
\* its callback returned
PromiseState(st, p) ==
    IF p[1] = "all" THEN st.all[p[2]].st
    ELSE LET t == st.then[p[2]]
         IN  IF t.st # "ran" THEN t.st
             ELSE IF isArray(t.ret) THEN "fulfilled"
             ELSE st.all[t.ret.v[2]].st

PromiseValue(st, p) ==
    IF p[1] = "all" THEN st.all[p[2]].val
    ELSE LET t == st.then[p[2]]
         IN  IF isArray(t.ret) THEN t.ret.v ELSE st.all[t.ret.v[2]].val

RECURSIVE renderComponent(_, _, _), innerRenderComponent(_, _, _), ssrRender(_, _, _, _, _)

\* index.ts:62-76
renderComponent(tree, c, st) ==
    IF tree[c].asyncSetup
    THEN [ret |-> PromiseItem(<<"then", c>>),
          st |-> [st EXCEPT !.setup[c] = "pending",
                            !.then[c] = [st |-> "pending", ret |-> NoItem]]]
    ELSE innerRenderComponent(tree, c, st)

\* index.ts:78-102
innerRenderComponent(tree, c, st) ==
    LET r == IF tree[c].kind = "ssrRender"
             THEN ssrRender(tree, c, 1, createBuffer, st)
             ELSE [b |-> createBuffer, st |-> st]
    IN  IF returnsPromise(r.b)
        THEN [ret |-> PromiseItem(<<"all", c>>),
              st |-> [r.st EXCEPT !.all[c] =
                        [st |-> "pending", buffer |-> r.b.buffer, val |-> <<>>]]]
        ELSE [ret |-> ArrItem(r.b.buffer), st |-> r.st]

\* comp.ssrRender(push, instance.proxy), index.ts:88, from its i-th statement
ssrRender(tree, c, i, b, st) ==
    IF i > Len(tree[c].body) THEN [b |-> b, st |-> st]
    ELSE LET op == tree[c].body[i]
         IN  IF op.op = "push"
             THEN ssrRender(tree, c, i + 1, push(b, op.item), st)
             ELSE LET r == renderComponent(tree, op.c, st)
                  IN  ssrRender(tree, c, i + 1, push(b, r.ret), r.st)

RECURSIVE HasPromise(_)
HasPromise(buffer) ==
    \E i \in 1..Len(buffer) :
        \/ isPromise(buffer[i])
        \/ isArray(buffer[i]) /\ HasPromise(buffer[i].v)

\* the array Promise.all fulfils with: promises replaced by their values
AllValue(st, buffer) ==
    [i \in 1..Len(buffer) |->
        IF isPromise(buffer[i]) THEN ArrItem(PromiseValue(st, buffer[i].v))
        ELSE buffer[i]]

PromiseItems(buffer) == {buffer[i].v : i \in {j \in 1..Len(buffer) : isPromise(buffer[j])}}

InitSSR ==
    /\ comps \in Trees
    /\ promises = NoPromises(4)
    /\ rts = [phase |-> "idle", awaited |-> NoItem, out |-> <<>>]
    /\ settled = <<>>
    /\ unrolledPending = FALSE

IdleSSR ==
    /\ comps = TreeOf({}, "ssrRender")
    /\ promises = NoPromises(4)
    /\ rts = [phase |-> "idle", awaited |-> NoItem, out |-> <<>>]
    /\ settled = <<>>
    /\ unrolledPending = FALSE

\* renderToString up to its await (index.ts:54-58)
RenderToString ==
    /\ rts.phase = "idle"
    /\ LET r == renderComponent(comps, 1, promises)
       IN  /\ promises' = r.st
           /\ rts' = [rts EXCEPT !.phase = "awaiting", !.awaited = r.ret]
    /\ UNCHANGED <<comps, settled, unrolledPending>>
    /\ UNCHANGED ssrRest

\* the promise returned by an async setup() settles (index.ts:70-71)
SettleSetup ==
    /\ \E c \in 1..Len(comps), outcome \in {"fulfilled", "rejected"} :
        /\ promises.setup[c] = "pending"
        /\ promises' = [promises EXCEPT !.setup[c] = outcome]
        /\ settled' = Append(settled, c)
    /\ UNCHANGED <<comps, rts, unrolledPending>>
    /\ UNCHANGED ssrRest

\* the reaction of res.then(() => innerRenderComponent(comp, instance)),
\* index.ts:72
RunThen ==
    /\ \E c \in 1..Len(comps) :
        /\ promises.then[c].st = "pending"
        /\ promises.setup[c] \in {"fulfilled", "rejected"}
        /\ IF promises.setup[c] = "rejected"
           THEN promises' = [promises EXCEPT !.then[c].st = "rejected"]
           ELSE LET r == innerRenderComponent(comps, c, promises)
                IN  promises' = [r.st EXCEPT !.then[c] = [st |-> "ran", ret |-> r.ret]]
    /\ UNCHANGED <<comps, rts, settled, unrolledPending>>
    /\ UNCHANGED ssrRest

\* Promise.all(buffer) settles (index.ts:100): rejected with the first
\* rejected entry, fulfilled when every entry is
ResolveAll ==
    /\ \E c \in 1..Len(comps) :
        /\ promises.all[c].st = "pending"
        /\ LET ps == PromiseItems(promises.all[c].buffer)
           IN  \/ /\ \E p \in ps : PromiseState(promises, p) = "rejected"
                  /\ promises' = [promises EXCEPT !.all[c].st = "rejected"]
               \/ /\ \A p \in ps : PromiseState(promises, p) = "fulfilled"
                  /\ promises' = [promises EXCEPT
                        !.all[c].st = "fulfilled",
                        !.all[c].val = AllValue(promises, promises.all[c].buffer)]
    /\ UNCHANGED <<comps, rts, settled, unrolledPending>>
    /\ UNCHANGED ssrRest

\* renderToString after its await: unrollBuffer(resolvedBuffer), index.ts:59
Resume ==
    /\ rts.phase = "awaiting"
    /\ IF isArray(rts.awaited)
       THEN /\ rts' = [rts EXCEPT !.phase = "resolved", !.out = unrollBuffer(rts.awaited.v)]
            /\ unrolledPending' = HasPromise(rts.awaited.v)
       ELSE \/ /\ PromiseState(promises, rts.awaited.v) = "fulfilled"
               /\ LET val == PromiseValue(promises, rts.awaited.v)
                  IN  /\ rts' = [rts EXCEPT !.phase = "resolved", !.out = unrollBuffer(val)]
                      /\ unrolledPending' = HasPromise(val)
            \/ /\ PromiseState(promises, rts.awaited.v) = "rejected"
               /\ rts' = [rts EXCEPT !.phase = "rejected"]
               /\ UNCHANGED unrolledPending
    /\ UNCHANGED <<comps, promises, settled>>
    /\ UNCHANGED ssrRest

NextSSR == RenderToString \/ SettleSetup \/ RunThen \/ ResolveAll \/ Resume

(***************************************************************************)
(* C6                                                                      *)
(***************************************************************************)
\* the depth-first, push-order concatenation of the string chunks of c
RECURSIVE C6_DepthFirst(_, _, _)
C6_DepthFirst(tree, c, i) ==
    IF tree[c].kind # "ssrRender" \/ i > Len(tree[c].body) THEN <<>>
    ELSE LET op == tree[c].body[i]
         IN  (IF op.op = "push" THEN op.item.v ELSE C6_DepthFirst(tree, op.c, 1))
             \o C6_DepthFirst(tree, c, i + 1)

\* C6: renderToString resolves only after every asynchronous setup and
\* render of the tree has settled, unrollBuffer is never applied to a buffer
\* that still holds a promise, and the string returned is the depth-first,
\* push-order concatenation of the chunks whatever the settle order.
C6_ResolvesAfterAllInOrder ==
    /\ ~unrolledPending
    /\ rts.phase = "resolved" =>
        /\ \A c \in 1..Len(comps) :
            /\ comps[c].asyncSetup => promises.setup[c] = "fulfilled"
            /\ promises.then[c].st \in {"none", "ran"}
            /\ promises.all[c].st \in {"none", "fulfilled"}
        /\ rts.out = C6_DepthFirst(comps, 1, 1)

\* resolved after the setup of 3 settled before that of 2, whose child 4
\* was asynchronous too
C6_Witness ==
    /\ rts.phase = "resolved"
    /\ settled = <<3, 2, 4>>
    /\ comps[4].kind = "ssrRender"
    /\ rts.out = <<"a", "f", "d", "b", "e", "c">>

(***************************************************************************)
(* apiWatch (src/unnamed/part_003): one watcher on one ref.  The log       *)
(* records what ran, in order: scheduler dispatches, job runs, runner      *)
(* evaluations, callback and cleanup invocations, registrations, stop.     *)
(***************************************************************************)
MaxWrites == 2
MaxRegs == 2

NumV(n) == [t |-> "number", v |-> <<n>>]

Ev(e, id, x, y, z) == [e |-> e, id |-> id, x |-> x, y |-> y, z |-> z]

NoWatcher ==
    [created |-> FALSE, cb |-> FALSE, lazy |-> FALSE, deep |-> FALSE,
     flush |-> "sync", instance |-> "none", active |-> FALSE,
     tracked |-> FALSE, oldValue |-> Undefined, cleanup |-> 0, nextId |-> 1]

WState(w, l, jq, pq) == [w |-> w, log |-> l, jq |-> jq, pq |-> pq]

\* part_003:205-208: a value that is not an object is not returned
traverse(value) == IF value.t = "object" THEN value ELSE Undefined

\* part_003:98-99 and 119-122
getter(w, src) == IF w.deep THEN traverse(src) ELSE src

\* part_003:125-130, called n times by one run of the callback or effect
RECURSIVE registerCleanup(_, _)
registerCleanup(s, n) ==
    IF n = 0 THEN s
    ELSE registerCleanup(
            [s EXCEPT !.w.cleanup = s.w.nextId,
                      !.w.nextId = s.w.nextId + 1,
                      !.log = Append(s.log, Ev("register", s.w.nextId, "", "", ""))],
            n - 1)

\* part_003:138, the test made before the callback runs again
cleansBeforeCb_Never(w) == FALSE

cleansBeforeCb(w) == w.cleanup # 0

\* runner(): the effect evaluates the getter and, while active, tracks the ref
\* it reads.  Without a callback the getter is the simple effect itself
\* (part_003:106-116), which may register cleanups.
runner(s, n) ==
    LET s1 == [s EXCEPT !.w.tracked = s.w.tracked \/ s.w.active]
    IN  IF s.w.cb
        THEN [s1 EXCEPT !.log = Append(s1.log, Ev("runner", 0, "", "", ""))]
        ELSE LET s2 == IF s1.w.cleanup # 0
                       THEN [s1 EXCEPT !.log = Append(s1.log, Ev("cleanup", s1.w.cleanup, "", "", ""))]
                       ELSE s1
                 s3 == [s2 EXCEPT !.log = Append(s2.log, Ev("effect", 0, "", "", ""))]
             IN  registerCleanup(s3, n)

\* part_003:133-149
applyCb(s, src, n) ==
    LET s1 == runner(s, 0)
        newValue == getter(s.w, src)
    IN  IF s.w.deep \/ newValue # s.w.oldValue
        THEN LET s2 == IF cleansBeforeCb(s1.w)
                       THEN [s1 EXCEPT !.log = Append(s1.log, Ev("cleanup", s1.w.cleanup, "", "", ""))]
                       ELSE s1
                 s3 == [s2 EXCEPT !.log = Append(s2.log, Ev("cb", 0, "", "", ""))]
                 s4 == registerCleanup(s3, n)
             IN  [s4 EXCEPT !.w.oldValue = newValue]
        ELSE s1

\* the job handed to the scheduler: applyCb, or the runner (part_003:172-180)
job(s, src, n, from) ==
    LET s1 == [s EXCEPT !.log = Append(s.log, Ev("job", 0, from, "", ""))]
    IN  IF s.w.cb THEN applyCb(s1, src, n) ELSE runner(s1, n)

\* part_003:151-164: what the scheduler selected by flush does with a job
schedulerOf_PreNeverInline(flush, inst) ==
    CASE flush = "sync" -> "inline"
      [] flush = "pre" -> "queueJob"
      [] OTHER -> "queuePostFlushCb"

schedulerOf(flush, inst) ==
    CASE flush = "sync" -> "inline"
      [] flush = "pre" ->
            IF inst = "none" \/ inst = "mounted" THEN "queueJob" ELSE "inline"
      [] OTHER -> "queuePostFlushCb"

\* a job already waiting in a queue is not queued twice
queue(q, j) == IF \E i \in 1..Len(q) : q[i] = j THEN q ELSE Append(q, j)

scheduler(s, src, n, cause) ==
    LET via == schedulerOf(s.w.flush, s.w.instance)
        s1 == [s EXCEPT !.log = Append(s.log, Ev("dispatch", 0, cause, via, s.w.instance))]
        j == IF s.w.cb THEN "applyCb" ELSE "runner"
    IN  CASE via = "inline" -> job(s1, src, n, "inline")
          [] via = "queueJob" -> [s1 EXCEPT !.jq = queue(s1.jq, j)]
          [] OTHER -> [s1 EXCEPT !.pq = queue(s1.pq, j)]

\* part_003:80-189
doWatch(cb, lazy, deep, flush, inst, src, n) ==
    LET w == [NoWatcher EXCEPT !.created = TRUE, !.cb = cb, !.lazy = lazy,
                               !.deep = deep, !.flush = flush,
                               !.instance = inst, !.active = TRUE]
        s == WState(w, <<>>, <<>>, <<>>)
    IN  IF ~lazy THEN scheduler(s, src, n, "first")
        ELSE LET s1 == runner([s EXCEPT !.log =
                                 IF cb THEN s.log
                                 ELSE Append(s.log, Ev("job", 0, "lazy", "", ""))], n)
             IN  [s1 EXCEPT !.w.oldValue = IF cb THEN getter(w, src) ELSE Undefined]

FlushOptions == {"sync", "pre", "post", "undefined"}
InstanceStates == {"none", "unmounted", "mounted"}

InitWatch ==
    /\ watcher = NoWatcher
    /\ source = NumV(0)
    /\ wlog = <<>>
    /\ jobQueue = <<>>
    /\ postQueue = <<>>
    /\ writes = 0

IdleWatch == InitWatch

SetWState(s) ==
    /\ watcher' = s.w
    /\ wlog' = s.log
    /\ jobQueue' = s.jq
    /\ postQueue' = s.pq

\* watch(source, cb, options) or watch(effect, options), part_003:60-78
DoWatch ==
    /\ ~watcher.created
    /\ \E cb \in BOOLEAN, lazy \in BOOLEAN, deep \in BOOLEAN,
          flush \in FlushOptions, inst \in InstanceStates, n \in 0..MaxRegs :
        SetWState(doWatch(cb, lazy, deep, flush, inst, source, n))
    /\ UNCHANGED <<source, writes>>
    /\ UNCHANGED watchRest

\* source.value = v : the ref setter triggers its dependents on every write
\* (ref.ts); the effect's scheduler option is part_003:172
SetSource ==
    /\ writes < MaxWrites
    /\ \E v \in 0..1, n \in 0..MaxRegs :
        /\ source' = NumV(v)
        /\ IF watcher.created /\ watcher.active /\ watcher.tracked
           THEN SetWState(scheduler(WState(watcher, wlog, jobQueue, postQueue),
                                    NumV(v), n, "trigger"))
           ELSE UNCHANGED <<watcher, wlog, jobQueue, postQueue>>
    /\ writes' = writes + 1
    /\ UNCHANGED watchRest

\* the owning component is mounted: instance.vnode.el is set
MountInstance ==
    /\ watcher.created
    /\ watcher.instance = "unmounted"
    /\ watcher' = [watcher EXCEPT !.instance = "mounted"]
    /\ UNCHANGED <<source, wlog, jobQueue, postQueue, writes>>
    /\ UNCHANGED watchRest

\* the scheduler flushes: queued jobs first, then post-flush callbacks
FlushJobs ==
    /\ jobQueue # <<>> \/ postQueue # <<>>
    /\ \E n \in 0..MaxRegs :
        LET s0 == WState(watcher, wlog, <<>>, <<>>)
            s1 == IF jobQueue # <<>> THEN job(s0, source, n, "queueJob") ELSE s0
            s2 == IF postQueue # <<>> THEN job(s1, source, n, "queuePostFlushCb") ELSE s1
        IN  SetWState(s2)
    /\ UNCHANGED <<source, writes>>
    /\ UNCHANGED watchRest

\* stop(runner) of @vue/reactivity: an active effect drops its dependencies,
\* calls its onStop and becomes inactive
stop(w, log) ==
    IF ~w.active THEN [w |-> w, log |-> log]
    ELSE [w |-> [w EXCEPT !.active = FALSE, !.tracked = FALSE],
          log |-> Append(log, Ev("stop", 0, "", "", ""))
                  \o (IF w.cleanup # 0
                      THEN <<Ev("cleanup", w.cleanup, "", "", "")>>
                      ELSE <<>>)]

\* the stop handle returned by doWatch, part_003:186-188
Stop ==
    /\ watcher.created
    /\ watcher.active
    /\ watcher' = stop(watcher, wlog).w
    /\ wlog' = stop(watcher, wlog).log
    /\ UNCHANGED <<source, jobQueue, postQueue, writes>>
    /\ UNCHANGED watchRest

NextWatch == DoWatch \/ SetSource \/ MountInstance \/ FlushJobs \/ Stop

(***************************************************************************)
(* C8, C9                                                                  *)
(***************************************************************************)
C8_Expected(flush, inst) ==
    IF flush = "sync" THEN "inline"
    ELSE IF flush = "pre"
         THEN (IF inst = "unmounted" THEN "inline" ELSE "queueJob")
         ELSE "queuePostFlushCb"

C8_Dispatched(i, via) ==
    \E j \in 1..(i - 1) : wlog[j].e = "dispatch" /\ wlog[j].y = via

\* C8: every run of the watcher's job, the first run of a non-lazy watcher
\* and every run caused by a write to the watched ref, goes through the
\* scheduler selected by flush: inline for 'sync'; for 'pre' inline only when
\* the owning instance exists and is not mounted, otherwise queueJob; any
\* other value queuePostFlushCb.  (The direct runner() call of a lazy
\* watcher is the one run that is neither of the two.)
C8_DispatchedByFlush ==
    \A i \in 1..Len(wlog) :
        /\ wlog[i].e = "dispatch" =>
              /\ wlog[i].x \in {"first", "trigger"}
              /\ wlog[i].x = "first" => ~watcher.lazy /\ i = 1
              /\ wlog[i].y = C8_Expected(watcher.flush, wlog[i].z)
        /\ wlog[i].e = "job" /\ wlog[i].x # "lazy" =>
              IF wlog[i].x = "inline"
              THEN i > 1 /\ wlog[i - 1].e = "dispatch" /\ wlog[i - 1].y = "inline"
              ELSE C8_Dispatched(i, wlog[i].x)
        /\ wlog[i].e = "job" /\ wlog[i].x = "lazy" => watcher.lazy /\ i = 1

\* a 'pre' watcher whose first run was inline before the mount and whose
\* later run was queued with queueJob and has run from the queue
C8_Witness ==
    /\ watcher.flush = "pre"
    /\ Len(wlog) >= 4
    /\ wlog[1] = Ev("dispatch", 0, "first", "inline", "unmounted")
    /\ \E i \in 3..Len(wlog) : \E j \in (i + 1)..Len(wlog) :
          /\ wlog[i] = Ev("dispatch", 0, "trigger", "queueJob", "mounted")
          /\ wlog[j] = Ev("job", 0, "queueJob", "", "")

\* index of the last registration before position i, 0 when there is none
C9_LastRegister(i) ==
    LET rs == {j \in 1..(i - 1) : wlog[j].e = "register"}
    IN  IF rs = {} THEN 0 ELSE CHOOSE j \in rs : \A k \in rs : k <= j

\* C9: for a watcher with a callback, the cleanup registered through the
\* registrar is invoked right before the callback's next invocation, after
\* the new value was computed, and is invoked when the watcher is stopped.
C9_CleanupBeforeCbAndOnStop ==
    watcher.created /\ watcher.cb =>
        \A i \in 1..Len(wlog) :
            LET r == C9_LastRegister(i)
            IN  /\ wlog[i].e = "cb" /\ r # 0 =>
                      /\ i > 2
                      /\ wlog[i - 1] = Ev("cleanup", wlog[r].id, "", "", "")
                      /\ wlog[i - 2].e = "runner"
                /\ wlog[i].e = "stop" /\ r # 0 =>
                      /\ i < Len(wlog)
                      /\ wlog[i + 1] = Ev("cleanup", wlog[r].id, "", "", "")

\* a cleanup registered by one callback run, invoked before the next run,
\* which registers another one that is invoked by stop
C9_Witness ==
    /\ watcher.cb
    /\ \E i \in 1..Len(wlog) : \E j \in (i + 1)..Len(wlog) : \E k \in (j + 1)..Len(wlog) :
          /\ wlog[i].e = "register"
          /\ wlog[j] = Ev("cleanup", wlog[i].id, "", "", "")
          /\ j + 2 <= Len(wlog) /\ wlog[j + 1].e = "cb" /\ wlog[j + 2].e = "register"
          /\ wlog[k].e = "stop"
          /\ k < Len(wlog) /\ wlog[k + 1] = Ev("cleanup", wlog[j + 2].id, "", "", "")

(***************************************************************************)
(* createAsyncComponent, outside a suspense boundary.  The implementation  *)
(* file is not among the sources; the wrapper below follows the written    *)
(* description of the component and the cases of                           *)
(* runtime-core/__tests__/apiAsyncComponent.spec.ts.  Time is a discrete   *)
(* clock; a timer fires when the clock reaches its due time, and a queued  *)
(* re-render runs before the next timer or loader event.                   *)
(***************************************************************************)
MaxTime == 3
MaxDelay == 2

NoTimer == -1

AsyncOptions ==
    [loading : BOOLEAN, error : BOOLEAN, delay : 0..MaxDelay,
     timeout : {NoTimer} \cup 0..MaxDelay]

NoAsyncInstance ==
    [mounted |-> FALSE, loaded |-> FALSE, error |-> FALSE, delayed |-> FALSE,
     delayTimer |-> NoTimer, timeoutTimer |-> NoTimer, dirty |-> FALSE,
     mountedAt |-> 0]

\* const delayed = ref(!!delay)
delayedAtSetup_Always(delay) == TRUE

delayedAtSetup(delay) == delay # 0

\* render order in which an error would win over a resolved component
asyncRender_ErrorFirst(opts, inst) ==
    IF inst.error /\ opts.error THEN "error"
    ELSE IF inst.loaded THEN "resolved"
    ELSE IF opts.loading /\ ~inst.delayed THEN "loading"
    ELSE "placeholder"

\* render in which an error without error component empties the output
asyncRender_ErrorBlank(opts, inst) ==
    IF inst.loaded THEN "resolved"
    ELSE IF inst.error THEN (IF opts.error THEN "error" ELSE "placeholder")
    ELSE IF opts.loading /\ ~inst.delayed THEN "loading"
    ELSE "placeholder"

\* the render function of the wrapper
asyncRender(opts, inst) ==
    IF inst.loaded THEN "resolved"
    ELSE IF inst.error /\ opts.error THEN "error"
    ELSE IF opts.loading /\ ~inst.delayed THEN "loading"
    ELSE "placeholder"

\* setup(): the refs, the two timers
asyncSetup(opts, t) ==
    [NoAsyncInstance EXCEPT
        !.mounted = TRUE,
        !.delayed = delayedAtSetup(opts.delay),
        !.delayTimer = IF opts.delay # 0 THEN t + opts.delay ELSE NoTimer,
        !.timeoutTimer = IF opts.timeout # NoTimer THEN t + opts.timeout ELSE NoTimer,
        !.mountedAt = t]

\* what onError hands to the error handler: the loader's rejection, or
\* new Error(`Async component timed out after ${timeout}ms.`)
LoaderError == [kind |-> "loader", ms |-> 0]
TimeoutError(ms) == [kind |-> "timeout", ms |-> ms]

InitAsync ==
    /\ asyncOpts \in AsyncOptions
    /\ loaderPromise = "none"
    /\ asyncInst = NoAsyncInstance
    /\ now = 0
    /\ displayed = "none"
    /\ shown = <<>>
    /\ resolvedEarly = FALSE
    /\ reported = <<>>
    /\ alog = <<>>

IdleAsync ==
    /\ asyncOpts = [loading |-> FALSE, error |-> FALSE, delay |-> 0, timeout |-> NoTimer]
    /\ loaderPromise = "none"
    /\ asyncInst = NoAsyncInstance
    /\ now = 0
    /\ displayed = "none"
    /\ shown = <<>>
    /\ resolvedEarly = FALSE
    /\ reported = <<>>
    /\ alog = <<>>

TimerDue(timer) == timer # NoTimer /\ timer <= now

\* the wrapper is mounted: setup() calls the loader and the first render runs
MountAsync ==
    /\ ~asyncInst.mounted
    /\ LET inst == asyncSetup(asyncOpts, now)
       IN  /\ asyncInst' = inst
           /\ displayed' = asyncRender(asyncOpts, inst)
           /\ shown' = <<asyncRender(asyncOpts, inst)>>
    /\ loaderPromise' = "pending"
    /\ alog' = Append(alog, "mount")
    /\ UNCHANGED <<asyncOpts, now, resolvedEarly, reported>>
    /\ UNCHANGED asyncRest

\* setTimeout(() => { delayed.value = false }, delay)
FireDelay ==
    /\ asyncInst.mounted /\ ~asyncInst.dirty
    /\ TimerDue(asyncInst.delayTimer)
    /\ asyncInst' = [asyncInst EXCEPT !.delayed = FALSE, !.delayTimer = NoTimer,
                                      !.dirty = TRUE]
    /\ alog' = Append(alog, "delay")
    /\ UNCHANGED <<asyncOpts, loaderPromise, now, displayed, shown, resolvedEarly, reported>>
    /\ UNCHANGED asyncRest

\* setTimeout(() => { if (!loaded.value) { onError(err); error.value = err } }, timeout)
FireTimeout ==
    /\ asyncInst.mounted /\ ~asyncInst.dirty
    /\ TimerDue(asyncInst.timeoutTimer)
    /\ asyncInst' = [asyncInst EXCEPT
                        !.timeoutTimer = NoTimer,
                        !.error = IF asyncInst.loaded THEN @ ELSE TRUE,
                        !.dirty = IF asyncInst.loaded THEN @ ELSE TRUE]
    /\ reported' = IF asyncInst.loaded THEN reported
                   ELSE Append(reported, TimeoutError(asyncOpts.timeout))
    /\ alog' = Append(alog, "timeout")
    /\ UNCHANGED <<asyncOpts, loaderPromise, now, displayed, shown, resolvedEarly>>
    /\ UNCHANGED asyncRest

\* the loader's promise resolves: load().then(() => { loaded.value = true })
ResolveLoader ==
    /\ asyncInst.mounted /\ ~asyncInst.dirty
    /\ loaderPromise = "pending"
    /\ loaderPromise' = "resolved"
    /\ asyncInst' = [asyncInst EXCEPT !.loaded = TRUE, !.dirty = TRUE]
    /\ resolvedEarly' = asyncInst.delayed
    /\ alog' = Append(alog, "resolve")
    /\ UNCHANGED <<asyncOpts, now, displayed, shown, reported>>
    /\ UNCHANGED asyncRest

\* the loader's promise rejects: .catch(err => { onError(err); error.value = err })
RejectLoader ==
    /\ asyncInst.mounted /\ ~asyncInst.dirty
    /\ loaderPromise = "pending"
    /\ loaderPromise' = "rejected"
    /\ asyncInst' = [asyncInst EXCEPT !.error = TRUE, !.dirty = TRUE]
    /\ reported' = Append(reported, LoaderError)
    /\ alog' = Append(alog, "reject")
    /\ UNCHANGED <<asyncOpts, now, displayed, shown, resolvedEarly>>
    /\ UNCHANGED asyncRest

\* the re-render queued by a change of loaded, error or delayed
RenderAsync ==
    /\ asyncInst.dirty
    /\ asyncInst' = [asyncInst EXCEPT !.dirty = FALSE]
    /\ displayed' = asyncRender(asyncOpts, asyncInst)
    /\ shown' = IF asyncRender(asyncOpts, asyncInst) = displayed THEN shown
                ELSE Append(shown, asyncRender(asyncOpts, asyncInst))
    /\ UNCHANGED <<asyncOpts, loaderPromise, now, resolvedEarly, reported, alog>>
    /\ UNCHANGED asyncRest

\* one millisecond passes; due timers fire first
Tick ==
    /\ now < MaxTime
    /\ ~asyncInst.dirty
    /\ ~TimerDue(asyncInst.delayTimer) /\ ~TimerDue(asyncInst.timeoutTimer)
    /\ now' = now + 1
    /\ UNCHANGED <<asyncOpts, loaderPromise, asyncInst, displayed, shown, resolvedEarly, reported, alog>>
    /\ UNCHANGED asyncRest

NextAsync ==
    MountAsync \/ FireDelay \/ FireTimeout \/ ResolveLoader \/ RejectLoader
    \/ RenderAsync \/ Tick

(***************************************************************************)
(* C10                                                                     *)
(***************************************************************************)
\* the pending state: mounted, the loader neither resolved nor in error
C10_Pending == asyncInst.mounted /\ ~asyncInst.loaded /\ ~asyncInst.error

C10_Shown(out) == \E i \in 1..Len(shown) : shown[i] = out

\* C10: with a loading component and a delay, while pending the loading
\* component is not displayed before the delay has elapsed since mount (the
\* placeholder is), it is displayed once the delay has elapsed, it is
\* displayed at mount when the delay is 0, and it is never displayed when the
\* loader resolves before the delay elapses.
C10_LoadingAfterDelay ==
    asyncOpts.loading /\ asyncInst.mounted =>
        /\ now < asyncInst.mountedAt + asyncOpts.delay =>
              /\ ~C10_Shown("loading")
              /\ C10_Pending => displayed = "placeholder"
        /\ C10_Pending /\ ~asyncInst.dirty
             /\ now >= asyncInst.mountedAt + asyncOpts.delay
             /\ ~TimerDue(asyncInst.delayTimer)
             => displayed = "loading"
        /\ asyncOpts.delay = 0 => shown[1] = "loading"
        /\ resolvedEarly => ~C10_Shown("loading")

\* the placeholder at mount and the loading component after a delay of 2
C10_Witness ==
    /\ asyncOpts.loading /\ asyncOpts.delay = 2
    /\ C10_Pending
    /\ now = asyncInst.mountedAt + 2
    /\ shown = <<"placeholder", "loading">>
    /\ displayed = "loading"

(***************************************************************************)
(* C11, C12                                                                *)
(***************************************************************************)
AsyncEventAt(e) ==
    IF \E i \in 1..Len(alog) : alog[i] = e
    THEN CHOOSE i \in 1..Len(alog) : alog[i] = e
    ELSE 0

\* the timeout elapsed while the loader was pending
TimedOutWhilePending ==
    /\ AsyncEventAt("timeout") # 0
    /\ AsyncEventAt("resolve") = 0 \/ AsyncEventAt("resolve") > AsyncEventAt("timeout")
    /\ AsyncEventAt("reject") = 0 \/ AsyncEventAt("reject") > AsyncEventAt("timeout")

\* C11: when the timeout elapses while the loader is pending, a timeout
\* error naming the configured milliseconds is reported and the error
\* component, if configured, is displayed; when the loader resolves
\* afterwards the resolved component is displayed in place of the error.
C11_TimeoutThenLateResolve ==
    TimedOutWhilePending =>
        /\ now >= asyncInst.mountedAt + asyncOpts.timeout
        /\ \E i \in 1..Len(reported) : reported[i] = TimeoutError(asyncOpts.timeout)
        /\ asyncOpts.error /\ ~asyncInst.dirty /\ loaderPromise # "resolved"
              => displayed = "error"
        /\ loaderPromise = "resolved" /\ ~asyncInst.dirty => displayed = "resolved"

\* the error component shown after the timeout, then the resolved component
C11_Witness ==
    /\ TimedOutWhilePending
    /\ asyncOpts.error /\ asyncOpts.timeout = 2
    /\ loaderPromise = "resolved"
    /\ ~asyncInst.dirty
    /\ Len(shown) >= 2
    /\ shown[Len(shown) - 1] = "error"
    /\ shown[Len(shown)] = "resolved"
    /\ displayed = "resolved"

\* C12: with a loading component, a timeout and no error component, when the
\* timeout elapses while the loading component is displayed the timeout error
\* is reported and the loading component stays displayed, the output never
\* becoming empty, until the loader resolves; then the resolved component is
\* displayed.
C12_LoadingSurvivesTimeout ==
    /\ asyncOpts.loading /\ ~asyncOpts.error /\ TimedOutWhilePending
       /\ AsyncEventAt("delay") < AsyncEventAt("timeout")
       /\ (asyncOpts.delay = 0 \/ AsyncEventAt("delay") # 0)
       =>
        /\ \E i \in 1..Len(reported) : reported[i] = TimeoutError(asyncOpts.timeout)
        /\ loaderPromise = "pending" => displayed = "loading"
        /\ loaderPromise = "resolved" /\ ~asyncInst.dirty => displayed = "resolved"
        /\ \A i \in 1..Len(shown) - 1 : shown[i] = "loading" => shown[i + 1] # "placeholder"

\* loading displayed, the timeout reported, loading still displayed
C12_Witness ==
    /\ asyncOpts.loading /\ ~asyncOpts.error
    /\ asyncOpts.delay = 1 /\ asyncOpts.timeout = 2
    /\ alog = <<"mount", "delay", "timeout">>
    /\ ~asyncInst.dirty
    /\ loaderPromise = "pending"
    /\ reported = <<TimeoutError(2)>>
    /\ displayed = "loading"

(***************************************************************************)
(* runtime-core/src/componentProxy.ts: writes through the render proxy.    *)
(* The instance is [data, renderContext, props, user], each an object.     *)
(***************************************************************************)
MaxSets == 2

\* the special names answered by the switch of get (componentProxy.ts:44-64)
PublicKeys ==
    { <<"$","d","a","t","a">>, <<"$","p","r","o","p","s">>, <<"$","a","t","t","r","s">>, <<"$","s","l","o","t","s">>, <<"$","r","e","f","s">>,
      <<"$","p","a","r","e","n","t">>, <<"$","r","o","o","t">>, <<"$","e","m","i","t">>, <<"$","e","l">>, <<"$","o","p","t","i","o","n","s">> }

\* the properties of the instance that the two handlers read or write
InstanceFields ==
    { <<"r","e","n","d","e","r","C","o","n","t","e","x","t">>, <<"d","a","t","a">>, <<"p","r","o","p","s">>, <<"p","r","o","p","s","P","r","o","x","y">>, <<"a","t","t","r","s">>,
      <<"s","l","o","t","s">>, <<"r","e","f","s">>, <<"p","a","r","e","n","t">>, <<"r","o","o","t">>, <<"e","m","i","t">>,
      <<"v","n","o","d","e">>, <<"t","y","p","e">>, <<"u","p","d","a","t","e">>, <<"u","s","e","r">> }

\* key.slice(1) in target (componentProxy.ts:86)
inTarget(name) == name \in InstanceFields

\* RenderProxyHandlers.set (componentProxy.ts:80-96): the instance after the
\* write and the value the trap returns
RenderProxySet(target, key, value) ==
    IF target.data # EMPTY_OBJ /\ hasOwn(target.data, key)
    THEN [inst |-> [target EXCEPT !.data = SetKey(target.data, key, value)], ok |-> TRUE]
    ELSE IF hasOwn(target.renderContext, key)
    THEN [inst |-> [target EXCEPT !.renderContext = SetKey(target.renderContext, key, value)],
          ok |-> TRUE]
    ELSE IF key # <<>> /\ key[1] = "$" /\ inTarget(SubSeq(key, 2, Len(key)))
    THEN [inst |-> target, ok |-> FALSE]
    ELSE IF key \in DOMAIN target.props
    THEN [inst |-> target, ok |-> FALSE]
    ELSE [inst |-> [target EXCEPT !.user = SetKey(target.user, key, value)], ok |-> TRUE]

\* what a read returns: a stored value, the value of a property of the
\* instance, or undefined
Stored(value) == [of |-> "value", v |-> value]
FieldOf(name) == [of |-> name, v |-> 0]
NotFound == [of |-> "undefined", v |-> 0]

\* the build flag __FEATURE_OPTIONS__ (componentProxy.ts:66)
FEATURE_OPTIONS == TRUE

\* RenderProxyHandlers.get (componentProxy.ts:33-79)
RenderProxyGet(target, key) ==
    IF target.data # EMPTY_OBJ /\ hasOwn(target.data, key)
    THEN Stored(target.data[key])
    ELSE IF hasOwn(target.renderContext, key)
    THEN Stored(target.renderContext[key])
    ELSE IF hasOwn(target.props, key)
    THEN Stored(target.props[key])
    ELSE CASE key = <<"$","d","a","t","a">> -> FieldOf("data")
           [] key = <<"$","p","r","o","p","s">> -> FieldOf("propsProxy")
           [] key = <<"$","a","t","t","r","s">> -> FieldOf("attrs")
           [] key = <<"$","s","l","o","t","s">> -> FieldOf("slots")
           [] key = <<"$","r","e","f","s">> -> FieldOf("refs")
           [] key = <<"$","p","a","r","e","n","t">> -> FieldOf("parent")
           [] key = <<"$","r","o","o","t">> -> FieldOf("root")
           [] key = <<"$","e","m","i","t">> -> FieldOf("emit")
           [] key = <<"$","e","l">> -> FieldOf("vnode.el")
           [] key = <<"$","o","p","t","i","o","n","s">> -> FieldOf("type")
           [] FEATURE_OPTIONS /\ key = <<"$","f","o","r","c","e","U","p","d","a","t","e">> ->
                FieldOf("update")
           [] FEATURE_OPTIONS /\ key = <<"$","n","e","x","t","T","i","c","k">> ->
                FieldOf("nextTick")
           [] FEATURE_OPTIONS /\ key = <<"$","w","a","t","c","h">> ->
                FieldOf("instanceWatch")
           [] OTHER -> IF hasOwn(target.user, key)
                       THEN Stored(target.user[key])
                       ELSE NotFound

\* no read since the last write
NoGet == [key |-> <<>>, result |-> NotFound, done |-> FALSE]

\* the keys written in the proxy specification: the special names, two names
\* with a dollar sign that get does not answer, and plain names
ProxyKeys ==
    PublicKeys \cup { <<"$","v","n","o","d","e">>, <<"$","f","o","o">>, <<"m","s","g">>, <<"s","i","z","e">>, <<"c","o","u","n","t">>, <<"o","t","h","e","r">>, <<"x">> }

\* props declared by the component; the resolved props object holds a
\* declared key only when resolveProps stored it
ProxyDeclared == { <<"m","s","g">>, <<"s","i","z","e">> }

ProxyObjects(keys) == UNION { [ks -> {1}] : ks \in SUBSET keys }

InitProxy ==
    /\ proxyInst \in
          [data : ProxyObjects({<<"c","o","u","n","t">>}),
           renderContext : ProxyObjects({<<"x">>}),
           props : ProxyObjects(ProxyDeclared),
           user : {EMPTY_OBJ}]
    /\ lastSet = [n |-> 0, key |-> <<>>, value |-> 0, ok |-> TRUE, before |-> EMPTY_OBJ]
    /\ lastGet = NoGet

IdleProxy ==
    /\ proxyInst = [data |-> EMPTY_OBJ, renderContext |-> EMPTY_OBJ,
                    props |-> EMPTY_OBJ, user |-> EMPTY_OBJ]
    /\ lastSet = [n |-> 0, key |-> <<>>, value |-> 0, ok |-> TRUE, before |-> EMPTY_OBJ]
    /\ lastGet = NoGet

\* proxy[key] = value
SetThroughProxy ==
    /\ lastSet.n < MaxSets
    /\ \E key \in ProxyKeys, value \in 2..3 :
        LET r == RenderProxySet(proxyInst, key, value)
        IN  /\ proxyInst' = r.inst
            /\ lastSet' = [n |-> lastSet.n + 1, key |-> key, value |-> value, ok |-> r.ok,
                           before |-> proxyInst]
    /\ lastGet' = NoGet
    /\ UNCHANGED proxyRest

\* proxy[key], read right after the write to key
GetThroughProxy ==
    /\ lastSet.n > 0
    /\ ~lastGet.done
    /\ lastGet' = [key |-> lastSet.key,
                   result |-> RenderProxyGet(proxyInst, lastSet.key), done |-> TRUE]
    /\ UNCHANGED <<proxyInst, lastSet>>
    /\ UNCHANGED proxyRest

NextProxy ==
    \/ SetThroughProxy
    \/ GetThroughProxy

(***************************************************************************)
(* C13                                                                     *)
(***************************************************************************)
C13_Rejected == ~lastSet.ok /\ proxyInst = lastSet.before

C13_StoredInUser ==
    /\ lastSet.ok
    /\ proxyInst = [lastSet.before EXCEPT
                       !.user = SetKey(lastSet.before.user, lastSet.key, lastSet.value)]

\* C13: a write through the render proxy to one of the special names $data,
\* $props, $attrs, $slots, $refs, $parent, $root, $emit, $el, $options or to a
\* declared prop is rejected and changes none of data, setup bindings, props
\* and user bucket; a write to a key that is none of these and neither in
\* data nor in the setup bindings is stored in the user bucket.
C13_ReservedAndPropsRejected ==
    lastSet.n > 0 =>
        LET key == lastSet.key
            before == lastSet.before
            owned == hasOwn(before.data, key) \/ hasOwn(before.renderContext, key)
        IN  /\ ~owned /\ (key \in PublicKeys \/ key \in ProxyDeclared) => C13_Rejected
            /\ ~owned /\ key \notin PublicKeys /\ key \notin ProxyDeclared => C13_StoredInUser

\* a write to $el lands in the user bucket
C13_ElStored ==
    /\ lastSet.n > 0
    /\ lastSet.key = <<"$","e","l">>
    /\ lastSet.ok
    /\ hasOwn(proxyInst.user, <<"$","e","l">>)

(***************************************************************************)
(* C14                                                                     *)
(***************************************************************************)
\* C14: over any sequence of resolveProps calls on an instance with declared
\* props and a live props proxy, after every call the proxy holds each key
\* of the freshly resolved props with the same value, and after a call whose
\* patch flag is 0 or carries FULL_PROPS the proxy holds no key that the
\* fresh props lack.
C14_ProxyFollowsProps ==
    instance.propsProxy.present /\ proxyBefore.present /\ resolved = "ok" =>
        /\ \A k \in DOMAIN localProps :
              /\ k \in DOMAIN instance.propsProxy.map
              /\ instance.propsProxy.map[k] = localProps[k]
        /\ instance.patchFlag = {} \/ "FULL_PROPS" \in instance.patchFlag =>
              DOMAIN instance.propsProxy.map \subseteq DOMAIN localProps

\* a full pass (patch flag 0) that deleted a key an earlier call had set and
\* changed the value of another
C14_Witness ==
    /\ proxyBefore.present /\ resolved = "ok"
    /\ instance.patchFlag = {}
    /\ \E k \in DOMAIN proxyBefore.map : k \notin DOMAIN instance.propsProxy.map
    /\ \E k \in DOMAIN proxyBefore.map :
          /\ k \in DOMAIN instance.propsProxy.map
          /\ instance.propsProxy.map[k] # proxyBefore.map[k]

(***************************************************************************)
(* server-renderer helpers: renderAttr, renderClass, renderStyle applied   *)
(* to one value; the emitted value may then be escaped again.              *)
(***************************************************************************)
MaxEscLen == 3
MaxPasses == 2

EscChars == {"a", " ", "&", "<", ">", "\"", "'"}
Escaped == {"&", "<", ">", "\"", "'"}

\* the replacement of one character
escapeChar(c) ==
    CASE c = "&" -> <<"&", "a", "m", "p", ";">>
      [] c = "<" -> <<"&", "l", "t", ";">>
      [] c = ">" -> <<"&", "g", "t", ";">>
      [] c = "\"" -> <<"&", "q", "u", "o", "t", ";">>
      [] c = "'" -> <<"&", "#", "3", "9", ";">>
      [] OTHER -> <<c>>

RECURSIVE escapeHtml(_)
escapeHtml(s) ==
    IF s = <<>> THEN <<>> ELSE escapeChar(Head(s)) \o escapeHtml(Tail(s))

\* normalizeClass of a string: res = value; return res.trim()
normalizeClassString(value) == TrimEnd(TrimStart(value))

isRenderableValue(value) == value.t \in {"string", "number", "boolean"}

\* the text and, inside it, the value that each helper emits
renderAttr(key, value) ==
    IF ~isRenderableValue(value) THEN [text |-> <<>>, value |-> <<>>]
    ELSE [text |-> <<" ">> \o key \o <<"=", "\"">> \o escapeHtml(value.v) \o <<"\"">>,
          value |-> escapeHtml(value.v)]

renderClass(raw) ==
    LET out == escapeHtml(IF raw.t = "string" THEN normalizeClassString(raw.v) ELSE <<>>)
    IN [text |-> out, value |-> out]

\* a renderStyle that emits the string as it is
renderStyle_Raw(raw) ==
    LET out == IF raw.t # "string" THEN <<>> ELSE raw.v
    IN [text |-> out, value |-> out]

renderStyle(raw) ==
    LET out == IF raw.t # "string" \/ raw.v = <<>> THEN <<>> ELSE escapeHtml(raw.v)
    IN [text |-> out, value |-> out]

EscStrings == UNION { [1..n -> EscChars] : n \in 0..MaxEscLen }
EscInputs == {StrV(s) : s \in EscStrings} \cup {FnV(<<"f">>)}
AttrKey == <<"i", "d">>

NotEmitted == [op |-> "none", text |-> <<>>, first |-> <<>>, value |-> <<>>, passes |-> 0]
Emit(op, r) == [op |-> op, text |-> r.text, first |-> r.value, value |-> r.value, passes |-> 1]

InitHelpers ==
    /\ escInput \in EscInputs
    /\ emitted = NotEmitted

IdleHelpers ==
    /\ escInput = StrV(<<>>)
    /\ emitted = NotEmitted

RenderAttr ==
    /\ emitted.op = "none"
    /\ emitted' = Emit("renderAttr", renderAttr(AttrKey, escInput))
    /\ UNCHANGED escInput
    /\ UNCHANGED helpersRest

RenderClass ==
    /\ emitted.op = "none"
    /\ emitted' = Emit("renderClass", renderClass(escInput))
    /\ UNCHANGED escInput
    /\ UNCHANGED helpersRest

RenderStyle ==
    /\ emitted.op = "none"
    /\ emitted' = Emit("renderStyle", renderStyle(escInput))
    /\ UNCHANGED escInput
    /\ UNCHANGED helpersRest

\* the emitted value goes through escapeHtml once more
EscapeAgain ==
    /\ emitted.op # "none"
    /\ emitted.passes < MaxPasses
    /\ emitted' = [emitted EXCEPT !.value = escapeHtml(@), !.passes = @ + 1]
    /\ UNCHANGED escInput
    /\ UNCHANGED helpersRest

NextHelpers == RenderAttr \/ RenderClass \/ RenderStyle \/ EscapeAgain

(***************************************************************************)
(* C16                                                                     *)
(***************************************************************************)
HasEscaped(s) == \E i \in 1..Len(s) : s[i] \in Escaped

RECURSIVE ReplaceLt(_)
ReplaceLt(s) ==
    IF s = <<>> THEN <<>>
    ELSE (IF Head(s) = "<" THEN <<"&", "l", "t", ";">> ELSE <<Head(s)>>) \o ReplaceLt(Tail(s))

C16_Emitted == emitted.op # "none" /\ escInput.t = "string"

\* C16 as claimed: a string with none of & < > " ' is emitted unchanged by
\* renderClass, renderStyle and renderAttr, a < is emitted as &lt;, and
\* escaping the emitted value again changes nothing, for every string
C16_UnchangedLtIdempotent ==
    C16_Emitted =>
        /\ ~HasEscaped(escInput.v) => emitted.first = escInput.v
        /\ (\A i \in 1..Len(escInput.v) : escInput.v[i] \notin Escaped \ {"<"})
              => emitted.first = ReplaceLt(escInput.v)
        /\ emitted.passes > 1 => emitted.value = emitted.first

\* C16 (amended): a string with none of & < > " ' is emitted unchanged by
\* renderStyle and renderAttr, and by renderClass once its surrounding
\* spaces are trimmed; a < is emitted as &lt;; escaping the emitted value
\* again changes nothing exactly when the value holds none of the five
\* characters
C16_UnchangedLtSinglePass ==
    C16_Emitted =>
        LET in == IF emitted.op = "renderClass" THEN normalizeClassString(escInput.v)
                  ELSE escInput.v
        IN  /\ ~HasEscaped(in) => emitted.first = in
            /\ (\A i \in 1..Len(in) : in[i] \notin Escaped \ {"<"})
                  => emitted.first = ReplaceLt(in)
            /\ emitted.passes > 1 => (emitted.value = emitted.first <=> ~HasEscaped(in))
            /\ emitted.text = IF emitted.op = "renderAttr"
                              THEN <<" ">> \o AttrKey \o <<"=", "\"">> \o emitted.first \o <<"\"">>
                              ELSE emitted.first

\* a value holding < and a plain character was emitted and escaped again
C16_Witness ==
    /\ C16_Emitted
    /\ emitted.passes = 2
    /\ \E i \in 1..Len(escInput.v) : escInput.v[i] = "<"
    /\ \E i \in 1..Len(escInput.v) : escInput.v[i] = "a"
    /\ emitted.value # emitted.first

(***************************************************************************)
(* compiler-core/src/directives/vFor.ts: the v-for directive transform on  *)
(* one directive expression.                                               *)
(***************************************************************************)
MaxAliases == 3

isSpace(c) == c = " "

\* String.prototype.indexOf(sub, from), zero-based, -1 when absent
indexOf(s, sub, from) ==
    LET start == IF from < 0 THEN 0 ELSE IF from > Len(s) THEN Len(s) ELSE from
        hits == {i \in start..(Len(s) - Len(sub)) : SubSeq(s, i + 1, i + Len(sub)) = sub}
    IN IF hits = {} THEN -1 ELSE CHOOSE i \in hits : \A j \in hits : i <= j

trim(s) == TrimEnd(TrimStart(s))

\* the first position at or after i (one-based) that holds no whitespace
RECURSIVE SkipSpaces(_, _)
SkipSpaces(s, i) == IF i <= Len(s) /\ isSpace(s[i]) THEN SkipSpaces(s, i + 1) ELSE i

\* (?:in|of)\s+ at position i (one-based)
KeywordAt(s, i) ==
    /\ i + 2 <= Len(s)
    /\ (s[i] = "i" /\ s[i + 1] = "n") \/ (s[i] = "o" /\ s[i + 1] = "f")
    /\ isSpace(s[i + 2])

\* where the keyword starts when the separator (?:(?<=\))|\s+) fits after
\* p characters, 0 when it does not fit
SeparatorAfter(s, p) ==
    IF p >= 1 /\ s[p] = ")" /\ KeywordAt(s, p + 1) THEN p + 1
    ELSE IF p + 1 <= Len(s) /\ isSpace(s[p + 1]) /\ KeywordAt(s, SkipSpaces(s, p + 1))
         THEN SkipSpaces(s, p + 1)
    ELSE 0

\* source.match(forAliasRE): the lazy first group takes the shortest prefix
forAliasRE(s) ==
    LET fits == {p \in 0..Len(s) : SeparatorAfter(s, p) # 0}
    IN IF fits = {} THEN [matched |-> FALSE, LHS |-> <<>>, RHS |-> <<>>]
       ELSE LET p == CHOOSE q \in fits : \A r \in fits : q <= r
                kw == SeparatorAfter(s, p)
            IN [matched |-> TRUE, LHS |-> SubSeq(s, 1, p),
                RHS |-> SubSeq(s, SkipSpaces(s, kw + 2), Len(s))]

\* s.replace(stripParensRE, '')
stripParens(s) ==
    LET a == IF s # <<>> /\ Head(s) = "(" THEN Tail(s) ELSE s
    IN IF a # <<>> /\ a[Len(a)] = ")" THEN SubSeq(a, 1, Len(a) - 1) ELSE a

Commas(s) == {i \in 1..Len(s) : s[i] = ","}

\* the one-based position of the comma where forIteratorRE matches, 0 when
\* it does not: the leftmost comma followed by at most one more comma and
\* by no } or ]
forIteratorAt(s) ==
    LET ok == {c \in Commas(s) :
                  /\ Cardinality({d \in Commas(s) : d > c}) <= 1
                  /\ \A i \in (c + 1)..Len(s) : s[i] \notin {"}", "]"}}
    IN IF ok = {} THEN 0 ELSE CHOOSE c \in ok : \A d \in ok : c <= d

\* the iterator match that reads its groups in the opposite order
forIteratorRE_Swapped(s) ==
    LET c == forIteratorAt(s)
        later == {d \in Commas(s) : d > c}
    IN IF c = 0 THEN [matched |-> FALSE, at |-> 0, g1 |-> <<>>, has2 |-> FALSE, g2 |-> <<>>]
       ELSE IF later = {}
            THEN [matched |-> TRUE, at |-> c, g1 |-> <<>>,
                  has2 |-> TRUE, g2 |-> SubSeq(s, c + 1, Len(s))]
       ELSE LET d == CHOOSE x \in later : TRUE
            IN [matched |-> TRUE, at |-> c, g1 |-> SubSeq(s, d + 1, Len(s)),
                has2 |-> TRUE, g2 |-> SubSeq(s, c + 1, d - 1)]

\* valueContent.match(forIteratorRE): groups 1 and 2
forIteratorRE(s) ==
    LET c == forIteratorAt(s)
        later == {d \in Commas(s) : d > c}
    IN IF c = 0 THEN [matched |-> FALSE, at |-> 0, g1 |-> <<>>, has2 |-> FALSE, g2 |-> <<>>]
       ELSE IF later = {}
            THEN [matched |-> TRUE, at |-> c, g1 |-> SubSeq(s, c + 1, Len(s)),
                  has2 |-> FALSE, g2 |-> <<>>]
       ELSE LET d == CHOOSE x \in later : TRUE
            IN [matched |-> TRUE, at |-> c, g1 |-> SubSeq(s, c + 1, d - 1),
                has2 |-> TRUE, g2 |-> SubSeq(s, d + 1, Len(s))]

NoAlias == [defined |-> FALSE, offset |-> 0, content |-> <<>>]
Alias(offset, content) == [defined |-> TRUE, offset |-> offset, content |-> content]

parseAliasExpressions(content) ==
    LET inMatch == forAliasRE(content)
        LHS == inMatch.LHS
        RHS == inMatch.RHS
        stripped == trim(stripParens(trim(LHS)))
        trimmedOffset == indexOf(LHS, stripped, 0)
        iteratorMatch == forIteratorRE(stripped)
        valueContent == IF iteratorMatch.matched
                        THEN trim(SubSeq(stripped, 1, iteratorMatch.at - 1))
                        ELSE stripped
        keyContent == trim(iteratorMatch.g1)
        key == IF iteratorMatch.matched /\ keyContent # <<>>
               THEN Alias(indexOf(content, keyContent, trimmedOffset + Len(valueContent)),
                          keyContent)
               ELSE NoAlias
        indexContent == trim(iteratorMatch.g2)
        index == IF iteratorMatch.matched /\ iteratorMatch.has2
                    /\ iteratorMatch.g2 # <<>> /\ indexContent # <<>>
                 THEN Alias(indexOf(content, indexContent,
                                    IF key.defined THEN key.offset + Len(key.content)
                                    ELSE trimmedOffset + Len(valueContent)),
                            indexContent)
                 ELSE NoAlias
    IN IF ~inMatch.matched THEN [matched |-> FALSE]
       ELSE [matched |-> TRUE,
             source |-> Alias(indexOf(content, RHS, Len(LHS)), trim(RHS)),
             value |-> IF valueContent # <<>> THEN Alias(trimmedOffset, valueContent)
                       ELSE NoAlias,
             key |-> key,
             index |-> index]

\* dir.exp: absent, or the content of the expression
NoExp == [present |-> FALSE, content |-> <<>>]
Exp(content) == [present |-> TRUE, content |-> content]

\* what the transform does: replaceNode with a FOR node, or onError
transformFor(exp) ==
    IF ~exp.present THEN [kind |-> "error", code |-> "X_FOR_NO_EXPRESSION"]
    ELSE LET aliases == parseAliasExpressions(exp.content)
         IN IF aliases.matched
            THEN [kind |-> "FOR", source |-> aliases.source, valueAlias |-> aliases.value,
                  keyAlias |-> aliases.key, objectIndexAlias |-> aliases.index]
            ELSE [kind |-> "error", code |-> "X_FOR_MALFORMED_EXPRESSION"]

N_item == <<"i", "t", "e", "m">>
N_index == <<"i", "n", "d", "e", "x">>
N_list == <<"l", "i", "s", "t">>
ForNames == {N_item, N_index, <<"k">>}

RECURSIVE JoinWith(_, _)
JoinWith(names, sep) ==
    IF names = <<>> THEN <<>>
    ELSE IF Len(names) = 1 THEN names[1]
    ELSE names[1] \o sep \o JoinWith(Tail(names), sep)

\* left-hand sides: up to MaxAliases names, bare or parenthesized, or one
\* destructuring pattern
ForLHS ==
    {IF paren THEN <<"(">> \o JoinWith(names, sep) \o <<")">> ELSE JoinWith(names, sep) :
        names \in UNION {[1..n -> ForNames] : n \in 0..MaxAliases},
        sep \in {<<",">>, <<",", " ">>},
        paren \in BOOLEAN}
    \cup {<<"{">> \o N_item \o <<",", " ">> \o N_index \o <<"}">>,
          <<"[">> \o N_item \o <<",">> \o N_index \o <<"]", ",">> \o <<"k">>}

ForKeywords == {<<" ", "i", "n", " ">>, <<" ", "o", "f", " ", " ">>, <<"i", "n", " ">>, <<" ">>}

ForExps == {NoExp} \cup {Exp(lhs \o kw \o N_list) : lhs \in ForLHS, kw \in ForKeywords}

NotTransformed == [kind |-> "none"]

InitFor ==
    /\ forExp \in ForExps
    /\ forNode = NotTransformed

IdleFor ==
    /\ forExp = NoExp
    /\ forNode = NotTransformed

TransformFor ==
    /\ forNode = NotTransformed
    /\ forNode' = transformFor(forExp)
    /\ UNCHANGED forExp
    /\ UNCHANGED vforRest

NextFor == TransformFor

(***************************************************************************)
(* C17                                                                     *)
(***************************************************************************)
C17_ItemIndexInList ==
    Exp(<<"(">> \o N_item \o <<",", " ">> \o N_index \o <<")", " ", "i", "n", " ">> \o N_list)

\* the expression is (value, second) in|of list, names without commas
C17_TwoAliases(value, second) ==
    /\ forExp.present
    /\ \E sep \in {<<",">>, <<",", " ">>}, kw \in {<<" ", "i", "n", " ">>, <<" ", "o", "f", " ", " ">>, <<"i", "n", " ">>} :
          forExp.content = <<"(">> \o value \o sep \o second \o <<")">> \o kw \o N_list

\* C17 as claimed: "(item, index) in list" parses to value "item", key
\* undefined, index "index", source "list"; for (value, second) the second
\* name goes in the index slot and the key slot stays undefined
C17_SecondIsIndex ==
    forNode.kind # "none" =>
        \A value, second \in ForNames :
            C17_TwoAliases(value, second) =>
                /\ forNode.kind = "FOR"
                /\ forNode.valueAlias.defined /\ forNode.valueAlias.content = value
                /\ ~forNode.keyAlias.defined
                /\ forNode.objectIndexAlias.defined
                /\ forNode.objectIndexAlias.content = second
                /\ forNode.source.content = N_list

\* C17 (amended): "(item, index) in list" parses to value "item", key
\* "index", index undefined, source "list"; for (value, second) the second
\* name goes in the key slot and the index slot stays undefined
C17_SecondIsKey ==
    forNode.kind # "none" =>
        \A value, second \in ForNames :
            C17_TwoAliases(value, second) =>
                /\ forNode.kind = "FOR"
                /\ forNode.valueAlias.defined /\ forNode.valueAlias.content = value
                /\ forNode.keyAlias.defined /\ forNode.keyAlias.content = second
                /\ ~forNode.objectIndexAlias.defined
                /\ forNode.source.content = N_list

\* "(item, index) in list" was transformed
C17_Witness ==
    /\ forExp = C17_ItemIndexInList
    /\ forNode.kind = "FOR"
    /\ forNode.valueAlias.content = N_item
    /\ forNode.keyAlias.content = N_index

(***************************************************************************)
(* compiler-core/src/errors.ts: createCompilerError for one code and one   *)
(* position, under the build flags __DEV__ and __BROWSER__.                *)
(***************************************************************************)
MaxLine == 2
MaxColumn == 2

\* the members of the enum, in declaration order: the value of a member is
\* its position less one
ErrorCodes == <<
    "ABRUPT_CLOSING_OF_EMPTY_COMMENT",
    "ABSENCE_OF_DIGITS_IN_NUMERIC_CHARACTER_REFERENCE",
    "CDATA_IN_HTML_CONTENT", "CHARACTER_REFERENCE_OUTSIDE_UNICODE_RANGE",
    "CONTROL_CHARACTER_REFERENCE", "DUPLICATE_ATTRIBUTE",
    "END_TAG_WITH_ATTRIBUTES", "END_TAG_WITH_TRAILING_SOLIDUS",
    "EOF_BEFORE_TAG_NAME", "EOF_IN_CDATA", "EOF_IN_COMMENT",
    "EOF_IN_SCRIPT_HTML_COMMENT_LIKE_TEXT", "EOF_IN_TAG",
    "INCORRECTLY_CLOSED_COMMENT", "INCORRECTLY_OPENED_COMMENT",
    "INVALID_FIRST_CHARACTER_OF_TAG_NAME", "MISSING_ATTRIBUTE_VALUE",
    "MISSING_END_TAG_NAME", "MISSING_SEMICOLON_AFTER_CHARACTER_REFERENCE",
    "MISSING_WHITESPACE_BETWEEN_ATTRIBUTES", "NESTED_COMMENT",
    "NONCHARACTER_CHARACTER_REFERENCE", "NULL_CHARACTER_REFERENCE",
    "SURROGATE_CHARACTER_REFERENCE",
    "UNEXPECTED_CHARACTER_IN_ATTRIBUTE_NAME",
    "UNEXPECTED_CHARACTER_IN_UNQUOTED_ATTRIBUTE_VALUE",
    "UNEXPECTED_EQUALS_SIGN_BEFORE_ATTRIBUTE_NAME",
    "UNEXPECTED_NULL_CHARACTER",
    "UNEXPECTED_QUESTION_MARK_INSTEAD_OF_TAG_NAME",
    "UNEXPECTED_SOLIDUS_IN_TAG", "UNKNOWN_NAMED_CHARACTER_REFERENCE",
    "X_INVALID_END_TAG", "X_MISSING_END_TAG", "X_MISSING_INTERPOLATION_END",
    "X_MISSING_DYNAMIC_DIRECTIVE_ARGUMENT_END", "X_ELSE_IF_NO_ADJACENT_IF",
    "X_ELSE_NO_ADJACENT_IF", "X_FOR_NO_EXPRESSION",
    "X_FOR_MALFORMED_EXPRESSION" >>

CodeOf(name) == (CHOOSE i \in 1..Len(ErrorCodes) : ErrorCodes[i] = name) - 1

\* the members that errorMessages has a key for; the text of a message is
\* named after its member
MessageKeys == {
    "ABRUPT_CLOSING_OF_EMPTY_COMMENT",
    "ABSENCE_OF_DIGITS_IN_NUMERIC_CHARACTER_REFERENCE",
    "CDATA_IN_HTML_CONTENT", "CHARACTER_REFERENCE_OUTSIDE_UNICODE_RANGE",
    "CONTROL_CHARACTER_REFERENCE", "DUPLICATE_ATTRIBUTE",
    "END_TAG_WITH_ATTRIBUTES", "END_TAG_WITH_TRAILING_SOLIDUS",
    "EOF_BEFORE_TAG_NAME", "EOF_IN_CDATA", "EOF_IN_COMMENT",
    "EOF_IN_SCRIPT_HTML_COMMENT_LIKE_TEXT", "EOF_IN_TAG",
    "INCORRECTLY_CLOSED_COMMENT", "INCORRECTLY_OPENED_COMMENT",
    "INVALID_FIRST_CHARACTER_OF_TAG_NAME", "MISSING_ATTRIBUTE_VALUE",
    "MISSING_END_TAG_NAME", "MISSING_SEMICOLON_AFTER_CHARACTER_REFERENCE",
    "MISSING_WHITESPACE_BETWEEN_ATTRIBUTES", "NESTED_COMMENT",
    "NONCHARACTER_CHARACTER_REFERENCE", "NULL_CHARACTER_REFERENCE",
    "SURROGATE_CHARACTER_REFERENCE",
    "UNEXPECTED_CHARACTER_IN_ATTRIBUTE_NAME",
    "UNEXPECTED_CHARACTER_IN_UNQUOTED_ATTRIBUTE_VALUE",
    "UNEXPECTED_EQUALS_SIGN_BEFORE_ATTRIBUTE_NAME",
    "UNEXPECTED_QUESTION_MARK_INSTEAD_OF_TAG_NAME",
    "UNEXPECTED_SOLIDUS_IN_TAG", "UNKNOWN_NAMED_CHARACTER_REFERENCE",
    "X_INVALID_END_TAG", "X_MISSING_END_TAG", "X_MISSING_INTERPOLATION_END",
    "X_ELSE_IF_NO_ADJACENT_IF", "X_ELSE_NO_ADJACENT_IF",
    "X_FOR_NO_EXPRESSION", "X_FOR_MALFORMED_EXPRESSION" }

errorMessages == [code \in {CodeOf(name) : name \in MessageKeys} |-> <<"text", ErrorCodes[code + 1]>>]

\* errorMessages[code] in a template string
MessageText(code) ==
    IF code \in DOMAIN errorMessages THEN errorMessages[code] ELSE <<"undefined">>

\* new SyntaxError(`${...} (${loc.line}:${loc.column})`) with code and loc
createCompilerError(code, loc, dev, browser) ==
    [message |-> <<IF dev \/ ~browser THEN MessageText(code) ELSE <<"number", code>>,
                   " (", loc.line, ":", loc.column, ")">>,
     code |-> code,
     loc |-> loc]

Positions == [line : 1..MaxLine, column : 1..MaxColumn]
NoError == [message |-> <<>>, code |-> -1, loc |-> [line |-> 0, column |-> 0]]

InitErrors ==
    /\ errArgs \in [code : 0..(Len(ErrorCodes) - 1), loc : Positions,
                     dev : BOOLEAN, browser : BOOLEAN]
    /\ compilerError = NoError

IdleErrors ==
    /\ errArgs = [code |-> 0, loc |-> [line |-> 1, column |-> 1], dev |-> TRUE, browser |-> FALSE]
    /\ compilerError = NoError

CreateCompilerError ==
    /\ compilerError = NoError
    /\ compilerError' = createCompilerError(errArgs.code, errArgs.loc, errArgs.dev, errArgs.browser)
    /\ UNCHANGED errArgs
    /\ UNCHANGED errorsRest

NextErrors == CreateCompilerError

(***************************************************************************)
(* C18                                                                     *)
(***************************************************************************)
\* C18: every member of ErrorCodes has an entry in errorMessages, and
\* createCompilerError(code, loc) gives an error whose message is the text
\* of the code followed by "(line:column)" and whose code and loc are the
\* arguments
C18_EveryCodeHasMessage ==
    compilerError # NoError /\ (errArgs.dev \/ ~errArgs.browser) =>
        /\ errArgs.code \in DOMAIN errorMessages
        /\ compilerError.message =
              <<<<"text", ErrorCodes[errArgs.code + 1]>>,
                " (", errArgs.loc.line, ":", errArgs.loc.column, ")">>
        /\ compilerError.code = errArgs.code
        /\ compilerError.loc = errArgs.loc

\* an error was created for a member without a message
C18_MissingMessage ==
    /\ compilerError # NoError
    /\ errArgs.dev
    /\ ErrorCodes[errArgs.code + 1] = "UNEXPECTED_NULL_CHARACTER"
    /\ compilerError.message[1] = <<"undefined">>

(***************************************************************************)
(* compiler-sfc/src/compileScript.ts: compileScript on one descriptor with *)
(* a <script setup> block and an optional <script> block.  A block is the  *)
(* sequence of its top-level statements: import declarations with one      *)
(* specifier, and statements labeled `ref`.                                *)
(***************************************************************************)
MaxStatements == 2

JsString(s) == [t |-> "string", v |-> s]
JsFalse == [t |-> "boolean", v |-> "false"]
JsNull == [t |-> "null", v |-> ""]

DEFINE_OPTIONS == "defineOptions"

Named(local, imported, from) ==
    [kind |-> "ImportDeclaration", type |-> "ImportSpecifier",
     local |-> local, imported |-> imported, source |-> from]
Default(local, from) ==
    [kind |-> "ImportDeclaration", type |-> "ImportDefaultSpecifier",
     local |-> local, imported |-> "", source |-> from]
Namespace(local, from) ==
    [kind |-> "ImportDeclaration", type |-> "ImportNamespaceSpecifier",
     local |-> local, imported |-> "", source |-> from]
\* ref: <expression>, the expression an identifier, an assignment to an
\* identifier, or a call
RefStatement(type, name) ==
    [kind |-> "LabeledStatement", type |-> type,
     local |-> name, imported |-> "", source |-> ""]

\* specifier.type === 'ImportSpecifier' && ... && specifier.imported.name
importedOf(specifier) ==
    IF specifier.type = "ImportSpecifier" THEN JsString(specifier.imported) ELSE JsFalse

\* imported || null
orNull(imported) == IF imported = JsFalse THEN JsNull ELSE imported

\* existing.imported === imported
sameImported(existing, imported) == existing = imported

\* reading options.refSugar as an opt-in
enableRefSugar_OptIn(options) == options.refSugar = "true"

\* options.refSugar !== false
enableRefSugar(options) == options.refSugar # "false"

Compiling ==
    [status |-> "ok", message |-> "", userImports |-> <<>>, importKeys |-> <<>>,
     hoisted |-> <<>>, refBindings |-> {}, setupBindings |-> <<>>, setupKeys |-> <<>>,
     defaultExport |-> FALSE, hasOptionsCall |-> FALSE]
Throw(st, msg) == [st EXCEPT !.status = "error", !.message = msg]

\* obj[key] = value on an object that keeps the order of its keys
Assign(obj, keys, key, value) ==
    [obj |-> [k \in (DOMAIN obj) \cup {key} |-> IF k = key THEN value ELSE obj[k]],
     keys |-> IF key \in DOMAIN obj THEN keys ELSE Append(keys, key)]

\* userImports[name] = { imported: imported || null, source }
recordImport(st, specifier) ==
    LET r == Assign(st.userImports, st.importKeys, specifier.local,
                    [imported |-> orNull(importedOf(specifier)), source |-> specifier.source])
    IN [st EXCEPT !.userImports = r.obj, !.importKeys = r.keys]

\* export default ..., or export { x as default } with or without a source
isDefaultExport(node) ==
    \/ node.kind = "ExportDefaultDeclaration"
    \/ node.kind = "ExportNamedDeclaration" /\ node.type \in {"default", "defaultFrom"}

\* the loop over the statements of <script>
RECURSIVE walkScript(_, _)
walkScript(st, nodes) ==
    IF nodes = <<>> THEN st
    ELSE walkScript(IF Head(nodes).kind = "ImportDeclaration"
                    THEN recordImport(st, Head(nodes))
                    ELSE IF isDefaultExport(Head(nodes))
                    THEN [st EXCEPT !.defaultExport = TRUE]
                    ELSE st,
                    Tail(nodes))

bind(st, name, type) ==
    LET r == Assign(st.setupBindings, st.setupKeys, name, type)
    IN [st EXCEPT !.setupBindings = r.obj, !.setupKeys = r.keys]

registerRefBinding(st, name) ==
    IF name[1] = "$" THEN Throw(st, "ref variable identifiers cannot start with $.")
    ELSE [bind(st, name, "SETUP") EXCEPT !.refBindings = @ \cup {name}]

processRefExpression(st, node) ==
    IF node.type \in {"AssignmentExpression", "Identifier"}
    THEN registerRefBinding(st, node.local)
    ELSE Throw(st, "ref: statements can only contain assignment expressions.")

\* a call of defineOptions
isDefineOptionsCall(init) == init.type = "CallExpression" /\ init.callee = DEFINE_OPTIONS

processDefineOptions(st) ==
    IF st.hasOptionsCall THEN Throw(st, "duplicate defineOptions() call")
    ELSE [st EXCEPT !.hasOptionsCall = TRUE]

\* a classification that looks at the declaration kind only
bindingTypeOf_ConstOnly(node) ==
    IF node.type = "const" THEN "CONST" ELSE "SETUP"

\* the type walkDeclaration gives to an identifier target
bindingTypeOf(node) ==
    LET isConst == node.type = "const"
        isUseOptionsCall == isConst /\ node.init.type # "none" /\ isDefineOptionsCall(node.init)
    IN IF isUseOptionsCall
          \/ (isConst /\ node.init.type \notin {"Identifier", "CallExpression", "MemberExpression"})
       THEN "CONST" ELSE "SETUP"

walkDeclaration(st, node) ==
    IF node.kind = "VariableDeclaration" THEN bind(st, node.local, bindingTypeOf(node))
    ELSE bind(st, node.local, "CONST")

\* default exports pass as well
exportAllowed_Default(node) ==
    \/ node.kind = "ExportDefaultDeclaration"
    \/ node.kind = "ExportNamedDeclaration" /\ node.type \in {"type", "default", "defaultFrom"}

\* exported declarations pass as well
exportAllowed_Declarations(node) ==
    node.kind = "ExportNamedDeclaration" /\ node.type \in {"type", "declaration"}

\* ExportNamedDeclaration with exportKind 'type' is the one export let through
exportAllowed(node) == node.kind = "ExportNamedDeclaration" /\ node.type = "type"

ExportsError ==
    "<script setup> cannot contain ES module exports."

\* one pass of the loop over the statements of <script setup>
processStatement(st, node, options) ==
    CASE node.kind = "LabeledStatement" ->
            IF enableRefSugar(options) THEN processRefExpression(st, node)
            ELSE Throw(st, "ref: sugar needs to be explicitly enabled via vite or vue-loader options.")
      [] node.kind = "ImportDeclaration" ->
            LET imported == importedOf(node)
                existing == st.userImports
            IN IF node.source = "vue" /\ imported = JsString(DEFINE_OPTIONS) THEN st
               ELSE IF node.local \in DOMAIN existing
                    THEN IF existing[node.local].source = node.source
                            /\ sameImported(existing[node.local].imported, imported)
                         THEN st
                         ELSE Throw(st, "different imports aliased to same local name.")
               ELSE [recordImport(st, node) EXCEPT !.hoisted = Append(@, node)]
      [] node.kind = "VariableDeclaration" ->
            LET called == IF node.init.type # "none" /\ isDefineOptionsCall(node.init)
                          THEN processDefineOptions(st) ELSE st
            IN IF called.status = "error" THEN called ELSE walkDeclaration(called, node)
      [] node.kind \in {"FunctionDeclaration", "ClassDeclaration"} -> walkDeclaration(st, node)
      [] node.kind \in {"ExportNamedDeclaration", "ExportAllDeclaration",
                        "ExportDefaultDeclaration"} ->
            IF exportAllowed(node) THEN st ELSE Throw(st, ExportsError)
      [] OTHER -> st

RECURSIVE walkSetup(_, _, _)
walkSetup(st, nodes, options) ==
    IF nodes = <<>> \/ st.status = "error" THEN st
    ELSE walkSetup(processStatement(st, Head(nodes), options), Tail(nodes), options)

\* bindingMetadata: the imports, then the bindings of <script setup>
bindingMetadata(st) ==
    [k \in (DOMAIN st.userImports) \cup (DOMAIN st.setupBindings) |->
        IF k \in DOMAIN st.setupBindings THEN st.setupBindings[k]
        ELSE "SETUP"]

\* Object.keys(allBindings): the keys of setupBindings, then the imports
allBindingKeys(st) ==
    st.setupKeys \o SelectSeq(st.importKeys, LAMBDA k : k \notin DOMAIN st.setupBindings)

\* the result: thrown or not, the import specifiers of the output (those of
\* <script> followed by those hoisted from <script setup>), the binding
\* metadata and the names that setup() returns
compileScript(sfc, options) ==
    LET st == walkSetup(walkScript(Compiling, sfc.script), sfc.scriptSetup, options)
    IN IF st.status = "error"
       THEN [status |-> "error", message |-> st.message, imports |-> <<>>,
             refBindings |-> st.refBindings, bindings |-> <<>>, returned |-> <<>>,
             defaultExport |-> FALSE]
       ELSE [status |-> "ok", message |-> "",
             imports |-> SelectSeq(sfc.script, LAMBDA n : n.kind = "ImportDeclaration")
                         \o st.hoisted,
             refBindings |-> st.refBindings, bindings |-> bindingMetadata(st),
             returned |-> allBindingKeys(st), defaultExport |-> TRUE]

SetupImports ==
    {Named(<<"x">>, i, s) : i \in {"x", "y"}, s \in {"./x", "./y"}}
    \cup {Default(<<"x">>, s) : s \in {"./x", "./y"}}
    \cup {Namespace(<<"x">>, s) : s \in {"./x", "./y"}}
    \cup {Named(<<"d", "e", "f", "i", "n", "e", "O", "p", "t", "i", "o", "n", "s">>,
                 DEFINE_OPTIONS, "vue")}
RefStatements ==
    {RefStatement(t, n) : t \in {"Identifier", "AssignmentExpression"},
                          n \in {<<"a">>, <<"$", "b">>}}
    \cup {RefStatement("CallExpression", <<"a">>)}
ScriptBlocks ==
    {<<>>, <<Named(<<"x">>, "x", "./x")>>, <<Default(<<"x">>, "./x")>>, <<Namespace(<<"x">>, "./x")>>}
SetupBlocks == UNION {[1..n -> SetupImports \cup RefStatements] : n \in 0..MaxStatements}
CompileOptions == [refSugar : {"undefined", "true", "false"}]

NotCompiled ==
    [status |-> "none", message |-> "", imports |-> <<>>, refBindings |-> {},
     bindings |-> <<>>, returned |-> <<>>, defaultExport |-> FALSE]

InitSfc ==
    /\ descriptor \in [script : ScriptBlocks, scriptSetup : SetupBlocks]
    /\ sfcOptions \in CompileOptions
    /\ compiled = NotCompiled

IdleSfc ==
    /\ descriptor = [script |-> <<>>, scriptSetup |-> <<>>]
    /\ sfcOptions = [refSugar |-> "undefined"]
    /\ compiled = NotCompiled

CompileScript ==
    /\ compiled = NotCompiled
    /\ compiled' = compileScript(descriptor, sfcOptions)
    /\ UNCHANGED <<descriptor, sfcOptions>>
    /\ UNCHANGED sfcRest

NextSfc == CompileScript

(***************************************************************************)
(* compileScript on blocks made of declarations and exports.               *)
(***************************************************************************)
ExportDefault == [kind |-> "ExportDefaultDeclaration"]
\* export { x as default }, export { x as default } from './y', export { x },
\* export const x = 1, export type { T }
ExportNamed(type, name) == [kind |-> "ExportNamedDeclaration", type |-> type, local |-> name]
ExportAll == [kind |-> "ExportAllDeclaration"]
NoInit == [type |-> "none", callee |-> ""]
InitOf(type, callee) == [type |-> type, callee |-> callee]
VariableDeclaration(declKind, name, init) ==
    [kind |-> "VariableDeclaration", type |-> declKind, local |-> name, init |-> init]
FunctionDeclaration(name) == [kind |-> "FunctionDeclaration", local |-> name]
ClassDeclaration(name) == [kind |-> "ClassDeclaration", local |-> name]

DefaultExports ==
    {ExportDefault, ExportNamed("default", <<"x">>), ExportNamed("defaultFrom", <<"x">>)}
Initializers ==
    {InitOf("NumericLiteral", ""), InitOf("Identifier", ""), InitOf("MemberExpression", ""),
     InitOf("CallExpression", "ref"), InitOf("CallExpression", DEFINE_OPTIONS)}
Declarations ==
    {VariableDeclaration(k, <<"x">>, i) : k \in {"const", "let", "var"}, i \in Initializers}
    \cup {VariableDeclaration("let", <<"x">>, NoInit), VariableDeclaration("const", <<"y">>, InitOf("NumericLiteral", "")),
          FunctionDeclaration(<<"f">>), ClassDeclaration(<<"C">>)}
SetupExports ==
    DefaultExports
    \cup {ExportNamed("declaration", <<"z">>), ExportNamed("specifiers", <<"x">>),
          ExportNamed("type", <<"T">>), ExportAll}

Declares(nodes) ==
    {i \in 1..Len(nodes) : nodes[i].kind \in {"VariableDeclaration", "FunctionDeclaration",
                                             "ClassDeclaration"}}
\* blocks that parse: no name is declared twice
DeclBlocks ==
    {b \in UNION {[1..n -> Declarations \cup SetupExports] : n \in 0..MaxStatements} :
        \A i, j \in Declares(b) : b[i].local = b[j].local => i = j}
DeclScripts == {<<>>} \cup {<<e>> : e \in DefaultExports}

InitDecl ==
    /\ descriptor \in [script : DeclScripts, scriptSetup : DeclBlocks]
    /\ sfcOptions = [refSugar |-> "undefined"]
    /\ compiled = NotCompiled

NextDecl == CompileScript

(***************************************************************************)
(* C21                                                                     *)
(***************************************************************************)
C21_BothDefault ==
    /\ descriptor.script # <<>>
    /\ Len(descriptor.scriptSetup) = 1
    /\ descriptor.scriptSetup[1] \in DefaultExports

C22_ExportsDeclaration ==
    \E i \in 1..Len(descriptor.scriptSetup) :
        descriptor.scriptSetup[i] = ExportNamed("declaration", <<"z">>)
C22_NoOtherExport ==
    \A i \in 1..Len(descriptor.scriptSetup) :
        descriptor.scriptSetup[i] \in Declarations \cup {ExportNamed("declaration", <<"z">>)}
C22_NoDuplicateCall ==
    Cardinality({i \in Declares(descriptor.scriptSetup) :
                    descriptor.scriptSetup[i].kind = "VariableDeclaration"
                    /\ isDefineOptionsCall(descriptor.scriptSetup[i].init)}) <= 1

C23_Variables ==
    {i \in 1..Len(descriptor.scriptSetup) :
        descriptor.scriptSetup[i].kind = "VariableDeclaration"}
C23_ConstLiteral(node) ==
    /\ node.type = "const"
    /\ node.init.type \notin {"Identifier", "CallExpression", "MemberExpression"}

\* C23 as claimed: a top-level variable with an identifier target is
\* classified constant exactly when it is a const whose initializer is not
\* an identifier, a call or a member access, and mutable state otherwise
C23_ConstExactlyLiteral ==
    compiled.status = "ok" =>
        \A i \in C23_Variables :
            LET node == descriptor.scriptSetup[i]
            IN compiled.bindings[node.local] =
                  IF C23_ConstLiteral(node) THEN "CONST" ELSE "SETUP"

\* C23 (amended): a top-level variable with an identifier target is
\* classified constant exactly when it is a const whose initializer is not
\* an identifier, a member access or a call, or is a call of defineOptions;
\* it is classified mutable state otherwise
C23_ConstLiteralOrOptions ==
    compiled.status = "ok" =>
        \A i \in C23_Variables :
            LET node == descriptor.scriptSetup[i]
            IN compiled.bindings[node.local] =
                  IF C23_ConstLiteral(node)
                     \/ (node.type = "const" /\ node.init = InitOf("CallExpression", DEFINE_OPTIONS))
                  THEN "CONST" ELSE "SETUP"

\* `const x = ref()` next to `const y = 1`: x is state, y is constant
C23_Witness ==
    /\ descriptor.scriptSetup = <<VariableDeclaration("const", <<"x">>, InitOf("CallExpression", "ref")),
                                  VariableDeclaration("const", <<"y">>, InitOf("NumericLiteral", ""))>>
    /\ compiled.status = "ok"
    /\ compiled.bindings[<<"x">>] = "SETUP"
    /\ compiled.bindings[<<"y">>] = "CONST"

(***************************************************************************)
(* C19                                                                     *)
(***************************************************************************)
Count(seq, x) == Cardinality({i \in 1..Len(seq) : seq[i] = x})
OnlyImports(nodes) == \A i \in 1..Len(nodes) : nodes[i].kind = "ImportDeclaration"

\* two import specifiers of one local name that differ in source or in
\* imported binding, among those of <script> and <script setup>
C19_Conflict ==
    LET all == descriptor.script \o descriptor.scriptSetup
    IN \E i, j \in 1..Len(all) :
          /\ all[i].local = all[j].local
          /\ all[i] # all[j]

\* C19 as claimed: an import of <script setup> identical to one of <script>,
\* in named, default or namespace form, compiles and is imported once; the
\* error 'different imports aliased to same local name' is raised only when
\* one local name is bound to a different source or imported binding
C19_IdenticalImportDeduped ==
    compiled.status # "none" /\ OnlyImports(descriptor.scriptSetup) =>
        /\ ~C19_Conflict =>
              /\ compiled.status = "ok"
              /\ \A i \in 1..Len(descriptor.script) :
                    Count(compiled.imports, descriptor.script[i]) = 1
        /\ compiled.status = "error" => C19_Conflict

\* the same default import in both blocks was compiled and raised the error
C19_DefaultImportRejected ==
    /\ descriptor.script = <<Default(<<"x">>, "./x")>>
    /\ descriptor.scriptSetup = <<Default(<<"x">>, "./x")>>
    /\ compiled.status = "error"
    /\ compiled.message = "different imports aliased to same local name."

(***************************************************************************)
(* C20                                                                     *)
(***************************************************************************)
C20_RefNodes ==
    {i \in 1..Len(descriptor.scriptSetup) : descriptor.scriptSetup[i].kind = "LabeledStatement"}
\* the statements are labeled statements that bind an identifier
C20_OnlyBindings ==
    /\ C20_RefNodes = 1..Len(descriptor.scriptSetup)
    /\ C20_RefNodes # {}
    /\ \A i \in C20_RefNodes : descriptor.scriptSetup[i].type # "CallExpression"
C20_BindsDollar ==
    \E i \in C20_RefNodes : descriptor.scriptSetup[i].local[1] = "$"

\* C20 as claimed: a statement labeled `ref` raises an error unless the
\* option was explicitly enabled, no options counting as disabled, and an
\* identifier bound by the shorthand that starts with $ raises an error
C20_OptIn ==
    compiled.status # "none" /\ C20_OnlyBindings =>
        /\ sfcOptions.refSugar # "true" => compiled.status = "error"
        /\ C20_BindsDollar => compiled.status = "error"

\* C20 (amended): a statement labeled `ref` raises an error when the option
\* was explicitly disabled and only then, no options counting as enabled;
\* an identifier bound by the shorthand that starts with $ raises an error
C20_OptOut ==
    compiled.status # "none" /\ C20_OnlyBindings =>
        /\ sfcOptions.refSugar = "false" =>
              /\ compiled.status = "error"
              /\ compiled.message =
                    "ref: sugar needs to be explicitly enabled via vite or vue-loader options."
        /\ C20_BindsDollar => compiled.status = "error"
        /\ sfcOptions.refSugar # "false" =>
              /\ compiled.status = "error" <=> C20_BindsDollar
              /\ compiled.status = "error" =>
                    compiled.message = "ref variable identifiers cannot start with $."
              /\ compiled.status = "ok" =>
                    compiled.refBindings =
                        {descriptor.scriptSetup[i].local : i \in C20_RefNodes}

\* `ref: a = 1` was compiled with no options and bound a
C20_Witness ==
    /\ descriptor.scriptSetup = <<RefStatement("AssignmentExpression", <<"a">>)>>
    /\ sfcOptions.refSugar = "undefined"
    /\ compiled.status = "ok"
    /\ compiled.refBindings = {<<"a">>}

(***************************************************************************)
(* mergeComponentOptions(to, from) on one parent and one child definition. *)
(* An options object maps keys to values; a function value is the          *)
(* sequence of the original functions it calls, in call order.             *)
(***************************************************************************)
MaxMixins == 1

OptFn(origin) == [t |-> "function", v |-> <<origin>>]
OptValue(origin) == [t |-> "value", v |-> origin]
OptArray(items) == [t |-> "array", v |-> items]

isFn(value) == value.t = "function"

\* function(...args) { a.call(this, ...args); b.call(this, ...args) }
mergeLifecycleHooks(a, b) == [t |-> "function", v |-> a.v \o b.v]

\* function() { return Object.assign(a.call(this), b.call(this)) }
mergeDataFn(a, b) == [t |-> "function", v |-> a.v \o b.v]

\* /^render|^errorCaptured/.test(key)
neverMerged(key) ==
    \/ Len(key) >= 6 /\ SubSeq(key, 1, 6) = <<"r", "e", "n", "d", "e", "r">>
    \/ Len(key) >= 13
       /\ SubSeq(key, 1, 13) = <<"e", "r", "r", "o", "r", "C", "a", "p", "t", "u", "r", "e", "d">>

\* one pass of the loop `for (const key in from)`
mergeKey(res, from, key) ==
    LET value == from[key]
    IN IF key \in DOMAIN res /\ isFn(value) /\ isFn(res[key])
       THEN IF key = <<"d", "a", "t", "a">> THEN mergeDataFn(res[key], value)
            ELSE IF neverMerged(key) THEN value
            ELSE mergeLifecycleHooks(res[key], value)
       ELSE IF key \in DOMAIN res /\ value.t = "array" /\ res[key].t = "array"
       THEN OptArray(res[key].v \o value.v)
       ELSE IF key \in DOMAIN res /\ value.t = "object" /\ res[key].t = "object"
       THEN [t |-> "object",
             v |-> [p \in (DOMAIN res[key].v) \cup (DOMAIN value.v) |->
                       IF p \in DOMAIN value.v THEN value.v[p] ELSE res[key].v[p]]]
       ELSE value

K_mixins == <<"m", "i", "x", "i", "n", "s">>

RECURSIVE mergeComponentOptions(_, _), foldMixins(_, _)
\* from.mixins.forEach(mixin => { from = mergeComponentOptions(from, mixin) })
foldMixins(from, mixins) ==
    IF mixins = <<>> THEN from
    ELSE foldMixins(mergeComponentOptions(from, Head(mixins)), Tail(mixins))

mergeComponentOptions(to, from) ==
    LET folded == IF K_mixins \in DOMAIN from /\ from[K_mixins].v # <<>>
                  THEN foldMixins(from, from[K_mixins].v) ELSE from
    IN [k \in (DOMAIN to) \cup (DOMAIN folded) |->
           IF k \in DOMAIN folded THEN mergeKey(to, folded, k) ELSE to[k]]

K_created == <<"c", "r", "e", "a", "t", "e", "d">>
K_render == <<"r", "e", "n", "d", "e", "r">>
K_name == <<"n", "a", "m", "e">>
K_data == <<"d", "a", "t", "a">>

\* the definitions written by one author: any of a created hook, a data
\* function, a render function and a name
OptionsOf(origin) ==
    {[k \in ks |-> IF k = K_name THEN OptValue(origin) ELSE OptFn(origin)] :
        ks \in SUBSET {K_created, K_render, K_name, K_data}}

MixinLists ==
    UNION {{[i \in 1..n |-> ms[i]] : ms \in [1..n -> OptionsOf("mixin")]} : n \in 0..MaxMixins}

WithMixins(options, mixins) ==
    IF mixins = <<>> THEN options
    ELSE [k \in (DOMAIN options) \cup {K_mixins} |->
             IF k = K_mixins THEN OptArray(mixins) ELSE options[k]]

NotMerged == [done |-> FALSE, options |-> <<>>]

InitMerge ==
    /\ mergeArgs \in [to : OptionsOf("parent"),
                      own : OptionsOf("child"),
                      mixins : MixinLists]
    /\ merged = NotMerged

IdleMerge ==
    /\ mergeArgs = [to |-> <<>>, own |-> <<>>, mixins |-> <<>>]
    /\ merged = NotMerged

MergeComponentOptions ==
    /\ ~merged.done
    /\ merged' = [done |-> TRUE,
                  options |-> mergeComponentOptions(mergeArgs.to,
                                  WithMixins(mergeArgs.own, mergeArgs.mixins))]
    /\ UNCHANGED mergeArgs
    /\ UNCHANGED mergeRest

NextMerge == MergeComponentOptions

(***************************************************************************)
(* C24                                                                     *)
(***************************************************************************)
C24_InMixin(key) == \E i \in 1..Len(mergeArgs.mixins) : key \in DOMAIN mergeArgs.mixins[i]

\* C24: the mixins of the child are folded in before its own fields: a
\* non-function field of both a mixin and the child has the child's value,
\* a hook of parent, mixin and child calls the parent's first and the
\* child's last, and render-prefixed fields are never merged
C24_ChildOverMixins ==
    merged.done =>
        /\ K_name \in DOMAIN mergeArgs.own /\ C24_InMixin(K_name) =>
              merged.options[K_name] = OptValue("child")
        /\ K_created \in DOMAIN mergeArgs.to /\ K_created \in DOMAIN mergeArgs.own
              /\ C24_InMixin(K_created) =>
              LET calls == merged.options[K_created].v
              IN Head(calls) = "parent" /\ calls[Len(calls)] = "child"
        /\ K_render \in DOMAIN merged.options => Len(merged.options[K_render].v) = 1

\* parent, child and one mixin all define created and name; the merged hook
\* calls the mixin's version last and the name is the mixin's
C24_MixinWins ==
    /\ merged.done
    /\ K_created \in DOMAIN mergeArgs.to /\ K_created \in DOMAIN mergeArgs.own
    /\ K_name \in DOMAIN mergeArgs.own
    /\ Len(mergeArgs.mixins) = 1
    /\ K_created \in DOMAIN mergeArgs.mixins[1] /\ K_name \in DOMAIN mergeArgs.mixins[1]
    /\ merged.options[K_created].v = <<"parent", "child", "mixin">>
    /\ merged.options[K_name] = OptValue("mixin")

(***************************************************************************)
(* compiler-ssr/src/ssrCodegenTransform.ts and transforms/ssrVFor.ts: the  *)
(* second pass of the server compiler, which turns the template tree into  *)
(* a list of `_push(...)` calls and statements.  A string is a sequence of *)
(* characters; an element of a template literal is a string or a call      *)
(* expression.                                                             *)
(***************************************************************************)
MaxCalls == 5

SSR_INTERPOLATE == "ssrInterpolate"
SSR_RENDER_LIST == "ssrRenderList"
SSR_RENDER_ATTR == "ssrRenderAttr"
RESOLVE_COMPONENT == "resolveComponent"

\* runtimeHelpers.ts: the helpers imported from the server renderer
ssrHelpers == {SSR_INTERPOLATE, SSR_RENDER_LIST, SSR_RENDER_ATTR}

FragmentMarker == <<"<", "!", "-", "-", "-", "-", ">">>

StringPart(text) == [kind |-> "string", text |-> text, callee |-> ""]
CallPart(callee) == [kind |-> "call", text |-> <<>>, callee |-> callee]
isStringPart(part) == part.kind = "string"

PushCall(elements) == [kind |-> "push", elements |-> elements]
IfStatement == [kind |-> "if"]
RenderListCall(callee, loopBody) ==
    [kind |-> "renderList", callee |-> callee, body |-> loopBody]

\* createSSRTransformContext(options, helpers): currentString is the index in
\* body of the `_push` call whose template literal is open, 0 for null
createSSRTransformContext(options, helpers) ==
    [options |-> options, body |-> <<>>, helpers |-> helpers, currentString |-> 0]

\* context.helper(name): helpers.add(name)
helper(ctx, name) ==
    IF name \in SeqToSet(ctx.helpers) THEN ctx
    ELSE [ctx EXCEPT !.helpers = Append(@, name)]

\* context.pushStringPart(part)
pushStringPart(ctx, part) ==
    LET opened == IF ctx.currentString = 0
                  THEN [ctx EXCEPT !.body = Append(@, PushCall(<<>>)),
                                   !.currentString = Len(ctx.body) + 1]
                  ELSE ctx
        cs == opened.currentString
        bufferedElements == opened.body[cs].elements
        n == Len(bufferedElements)
    IN IF isStringPart(part) /\ n > 0 /\ isStringPart(bufferedElements[n])
       THEN [opened EXCEPT !.body[cs].elements[n].text = @ \o part.text]
       ELSE [opened EXCEPT !.body[cs].elements = Append(@, part)]

\* mutant: the statement is pushed while the current string stays open
pushStatement_KeepsString(ctx, statement) ==
    [ctx EXCEPT !.body = Append(@, statement)]

\* context.pushStatement(statement)
pushStatement(ctx, statement) ==
    [ctx EXCEPT !.currentString = 0, !.body = Append(@, statement)]

\* createChildContext(parent): a fresh body, the helpers set of the parent
createChildContext(parent) ==
    createSSRTransformContext(parent.options, parent.helpers)

\* compiler-core isText(node)
isText(node) == node.type \in {"TEXT", "INTERPOLATION"}

ClosingTag(tag) == <<"<", "/">> \o tag \o <<">">>

RECURSIVE processChildren(_, _), processFor(_, _), pushAll(_, _)

\* for (j ...) context.pushStringPart(elementsToAdd[j])
pushAll(ctx, elements) ==
    IF elements = <<>> THEN ctx
    ELSE pushAll(pushStringPart(ctx, Head(elements)), Tail(elements))

\* processChildren(children, context): one iteration of the loop per child
processChildren(children, ctx) ==
    IF children = <<>> THEN ctx
    ELSE LET child == Head(children)
             after ==
                 CASE child.type = "ELEMENT" ->
                        LET opened == pushAll(ctx, child.elements)
                            inside == IF Len(child.children) > 0
                                      THEN processChildren(child.children, opened)
                                      ELSE opened
                        IN IF child.tag \notin ctx.options.isVoidTag
                           THEN pushStringPart(inside, StringPart(ClosingTag(child.tag)))
                           ELSE inside
                   [] child.type = "TEXT" ->
                        pushStringPart(ctx, StringPart(escapeHtml(child.content)))
                   [] child.type = "INTERPOLATION" ->
                        pushStringPart(helper(ctx, SSR_INTERPOLATE),
                                       CallPart(SSR_INTERPOLATE))
                   [] child.type = "FOR" -> processFor(child, ctx)
                   [] OTHER -> ctx
         IN processChildren(Tail(children), after)

\* the loop body that processFor renders in a child context
renderLoopContext(node, ctx) ==
    LET childContext == createChildContext(ctx)
        needFragmentWrapper ==
            Len(node.children) # 1 \/ node.children[1].type # "ELEMENT"
        opened == IF needFragmentWrapper
                  THEN pushStringPart(childContext, StringPart(FragmentMarker))
                  ELSE childContext
        inside == processChildren(node.children, opened)
    IN IF needFragmentWrapper
       THEN pushStringPart(inside, StringPart(FragmentMarker))
       ELSE inside

\* processFor(node, context); the helpers set is shared with the child context
processFor(node, ctx) ==
    LET childContext == renderLoopContext(node, ctx)
        shared == [ctx EXCEPT !.helpers = childContext.helpers]
        before == pushStringPart(shared, StringPart(FragmentMarker))
        called == pushStatement(helper(before, SSR_RENDER_LIST),
                                RenderListCall(SSR_RENDER_LIST, childContext.body))
    IN pushStringPart(called, StringPart(FragmentMarker))

\* ssrCodegenTransform(ast, options): the root after the pass
ssrCodegenTransform(root, options) ==
    LET ctx == createSSRTransformContext(options, <<>>)
        isFragment == /\ Len(root.children) > 1
                      /\ ~ \A i \in 1..Len(root.children) : isText(root.children[i])
        opened == IF isFragment
                  THEN pushStringPart(ctx, StringPart(FragmentMarker))
                  ELSE ctx
        inside == processChildren(root.children, opened)
        closed == IF isFragment
                  THEN pushStringPart(inside, StringPart(FragmentMarker))
                  ELSE inside
    IN [root EXCEPT
          !.codegenNode = closed.body,
          !.ssrHelpers = SelectSeq(root.helpers, LAMBDA h : h \in ssrHelpers)
                             \o closed.helpers,
          !.helpers = SelectSeq(root.helpers, LAMBDA h : h \notin ssrHelpers),
          !.transformed = TRUE]

(***************************************************************************)
(* SpecPush: any sequence of pushStringPart / pushStatement / processFor   *)
(* calls on one context.  SpecCodegen: ssrCodegenTransform on a template   *)
(* tree left by the first pass.                                            *)
(***************************************************************************)
DomOptions == [isVoidTag |-> {<<"b", "r">>}]

TextNode(content) == [type |-> "TEXT", content |-> content]
InterpolationNode == [type |-> "INTERPOLATION"]
ElementNode(tag, elements, children) ==
    [type |-> "ELEMENT", tag |-> tag, elements |-> elements, children |-> children]
ForNode(children) == [type |-> "FOR", children |-> children]

\* children without children of their own: a text to escape, an
\* interpolation, a void element, an element with a dynamic attribute
Leaves ==
    {TextNode(<<"<">>), InterpolationNode,
     ElementNode(<<"b", "r">>, <<StringPart(<<"<", "b", "r", ">">>)>>, <<>>),
     ElementNode(<<"p">>, <<StringPart(<<"<", "p">>), CallPart(SSR_RENDER_ATTR),
                            StringPart(<<">">>)>>, <<>>)}

ChildLists(nodes) ==
    {<<>>} \cup {<<a>> : a \in nodes} \cup {<<a, b>> : a \in nodes, b \in nodes}

\* v-for nodes and elements over the leaves
Nested ==
    {ForNode(c) : c \in {<<>>} \cup {<<a>> : a \in Leaves}}
        \cup {ElementNode(<<"p">>, <<StringPart(<<"<", "p", ">">>)>>, <<a>>) :
                 a \in {InterpolationNode, ForNode(<<InterpolationNode>>)}}

\* helpers registered by the first pass
FirstPassHelpers ==
    {<<>>, <<RESOLVE_COMPONENT>>, <<SSR_RENDER_ATTR>>, <<SSR_INTERPOLATE>>,
     <<RESOLVE_COMPONENT, SSR_INTERPOLATE>>}

RootNode(children, helpers) ==
    [children |-> children, helpers |-> helpers, ssrHelpers |-> <<>>,
     codegenNode |-> <<>>, transformed |-> FALSE]

RootNodes ==
    {RootNode(c, h) : c \in ChildLists(Leaves \cup Nested),
                      h \in FirstPassHelpers}

\* the parts and statements handed to one context
StringParts == {StringPart(<<>>), StringPart(<<"a">>), CallPart(SSR_INTERPOLATE)}
ForNodes == {ForNode(<<>>), ForNode(<<TextNode(<<"a">>)>>),
             ForNode(<<ElementNode(<<"b", "r">>,
                                   <<StringPart(<<"<", "b", "r", ">">>)>>, <<>>)>>)}

PartCall(part) == [op |-> "pushStringPart", arg |-> part]
StatementCall(statement) == [op |-> "pushStatement", arg |-> statement]

InitPush ==
    /\ context = createSSRTransformContext(DomOptions, <<>>)
    /\ pushCalls = <<>>
    /\ ast = RootNode(<<>>, <<>>)

IdleGen == InitPush

InitCodegen ==
    /\ context = createSSRTransformContext(DomOptions, <<>>)
    /\ pushCalls = <<>>
    /\ ast \in RootNodes

PushStringPart ==
    \E part \in StringParts :
        /\ Len(pushCalls) < MaxCalls
        /\ context' = pushStringPart(context, part)
        /\ pushCalls' = Append(pushCalls, PartCall(part))
        /\ UNCHANGED ast
        /\ UNCHANGED genRest

\* what processIf hands to the context
PushStatement ==
    /\ Len(pushCalls) < MaxCalls
    /\ context' = pushStatement(context, IfStatement)
    /\ pushCalls' = Append(pushCalls, StatementCall(IfStatement))
    /\ UNCHANGED ast
    /\ UNCHANGED genRest

\* processFor makes three calls on the context it is given
ProcessFor ==
    \E node \in ForNodes :
        /\ Len(pushCalls) + 3 <= MaxCalls
        /\ context' = processFor(node, context)
        /\ pushCalls' = pushCalls \o
              <<PartCall(StringPart(FragmentMarker)),
                StatementCall(RenderListCall(SSR_RENDER_LIST,
                                             renderLoopContext(node, context).body)),
                PartCall(StringPart(FragmentMarker))>>
        /\ UNCHANGED ast
        /\ UNCHANGED genRest

SsrCodegenTransform ==
    /\ ~ast.transformed
    /\ ast' = ssrCodegenTransform(ast, DomOptions)
    /\ UNCHANGED <<context, pushCalls>>
    /\ UNCHANGED genRest

NextPush ==
    \/ PushStringPart
    \/ PushStatement
    \/ ProcessFor

NextCodegen == SsrCodegenTransform

\* ---- C26 ----
C26_IsStatement(i) == pushCalls[i].op = "pushStatement"

\* call i starts a run of string parts: it is the first call or follows a
\* statement
C26_StartsRun(i) == ~C26_IsStatement(i) /\ (i = 1 \/ C26_IsStatement(i - 1))

\* the position in the body where call i must land: one item per statement
\* and one per maximal run of string parts
C26_Item(i) ==
    Cardinality({j \in 1..i : C26_IsStatement(j) \/ C26_StartsRun(j)})

\* a template literal or a run of parts, character by character
RECURSIVE C26_Stream(_)
C26_Stream(parts) ==
    IF parts = <<>> THEN <<>>
    ELSE (IF isStringPart(Head(parts))
          THEN [k \in 1..Len(Head(parts).text) |-> StringPart(<<Head(parts).text[k]>>)]
          ELSE <<Head(parts)>>) \o C26_Stream(Tail(parts))

\* the parts of the run that lands at position item, in call order
C26_Run(item) ==
    LET inRun(i) == ~C26_IsStatement(i) /\ C26_Item(i) = item
        F[i \in 0..Len(pushCalls)] ==
            IF i = 0 THEN <<>>
            ELSE IF inRun(i) THEN Append(F[i - 1], pushCalls[i].arg) ELSE F[i - 1]
    IN F[Len(pushCalls)]

C26_EndsWith(text, suffix) ==
    /\ Len(text) >= Len(suffix)
    /\ SubSeq(text, Len(text) - Len(suffix) + 1, Len(text)) = suffix

C26_StartsWith(text, prefix) ==
    /\ Len(text) >= Len(prefix)
    /\ SubSeq(text, 1, Len(prefix)) = prefix

\* C26: the body lists the `_push` calls and the statements in call order;
\* each maximal run of string parts between statements is exactly one `_push`
\* call whose template literal spells the parts of the run in order and has
\* no two adjacent string elements; a part pushed after a statement is never
\* merged into a literal before that statement; and the render-list call of
\* processFor always stands between a literal that ends with `<!---->` and a
\* literal that begins with `<!---->`
C26_BodyFollowsCalls ==
    LET body == context.body
    IN /\ Len(body) = IF pushCalls = <<>> THEN 0 ELSE C26_Item(Len(pushCalls))
       /\ \A i \in 1..Len(pushCalls) :
            IF C26_IsStatement(i)
            THEN body[C26_Item(i)] = pushCalls[i].arg
            ELSE LET call == body[C26_Item(i)]
                 IN /\ call.kind = "push"
                    /\ C26_Stream(call.elements) = C26_Stream(C26_Run(C26_Item(i)))
                    /\ \A k \in 1..(Len(call.elements) - 1) :
                          ~(isStringPart(call.elements[k])
                              /\ isStringPart(call.elements[k + 1]))
       /\ \A k \in 1..Len(body) :
            body[k].kind = "renderList" =>
                /\ k > 1 /\ k < Len(body)
                /\ body[k - 1].kind = "push" /\ body[k + 1].kind = "push"
                /\ LET last == body[k - 1].elements[Len(body[k - 1].elements)]
                       first == body[k + 1].elements[1]
                   IN /\ isStringPart(last) /\ C26_EndsWith(last.text, FragmentMarker)
                      /\ isStringPart(first) /\ C26_StartsWith(first.text, FragmentMarker)

\* a string part, then processFor, then another string part: the first marker
\* was merged into the open literal, the render-list call closed it, and the
\* parts after the call share one new literal
C26_Witness ==
    /\ Len(pushCalls) = 5
    /\ Len(context.body) = 3
    /\ context.body[1] = PushCall(<<StringPart(<<"a">> \o FragmentMarker)>>)
    /\ context.body[2].kind = "renderList"
    /\ context.body[2].body # <<>>
    /\ context.body[3] = PushCall(<<StringPart(FragmentMarker \o <<"a">>)>>)

\* ---- C28 ----
\* the server-renderer helpers that the second pass registers for a list of
\* children, child contexts included
RECURSIVE C28_Registered(_)
C28_Registered(children) ==
    IF children = <<>> THEN {}
    ELSE LET child == Head(children)
             own == CASE child.type = "INTERPOLATION" -> {SSR_INTERPOLATE}
                      [] child.type = "FOR" ->
                           {SSR_RENDER_LIST} \cup C28_Registered(child.children)
                      [] child.type = "ELEMENT" -> C28_Registered(child.children)
                      [] OTHER -> {}
         IN own \cup C28_Registered(Tail(children))

\* ast.helpers and ast.ssrHelpers are disjoint, ast.helpers holds no
\* server-renderer helper, and ast.ssrHelpers holds every server-renderer
\* helper registered in either pass
C28_Separated ==
    [][SsrCodegenTransform =>
         /\ SeqToSet(ast'.helpers) \cap SeqToSet(ast'.ssrHelpers) = {}
         /\ SeqToSet(ast'.helpers) \cap ssrHelpers = {}
         /\ SeqToSet(ast'.helpers) = SeqToSet(ast.helpers) \ ssrHelpers
         /\ SeqToSet(ast'.ssrHelpers) =
               (SeqToSet(ast.helpers) \cap ssrHelpers)
                   \cup C28_Registered(ast.children)]_genVars

\* C28: after ssrCodegenTransform, ast.helpers and ast.ssrHelpers are
\* disjoint, ast.helpers holds no server-renderer helper, ast.ssrHelpers holds
\* every server-renderer helper registered in either pass, and ast.ssrHelpers
\* lists each helper at most once
C28_EachHelperOnce ==
    [][SsrCodegenTransform =>
         /\ SeqToSet(ast'.helpers) \cap SeqToSet(ast'.ssrHelpers) = {}
         /\ SeqToSet(ast'.helpers) \cap ssrHelpers = {}
         /\ SeqToSet(ast'.ssrHelpers) =
               (SeqToSet(ast.helpers) \cap ssrHelpers)
                   \cup C28_Registered(ast.children)
         /\ \A i, j \in 1..Len(ast'.ssrHelpers) :
               i # j => ast'.ssrHelpers[i] # ast'.ssrHelpers[j]]_genVars

\* the first pass registered ssrInterpolate, the second pass registered it
\* again inside a v-for body, and ast.ssrHelpers lists it twice
C28_ListedTwice ==
    /\ ast.transformed
    /\ \E i \in 1..Len(ast.children) :
          /\ ast.children[i].type = "FOR"
          /\ SSR_INTERPOLATE \in C28_Registered(ast.children[i].children)
    /\ \E i, j \in 1..Len(ast.ssrHelpers) :
          /\ i < j
          /\ ast.ssrHelpers[i] = SSR_INTERPOLATE
          /\ ast.ssrHelpers[j] = SSR_INTERPOLATE

(***************************************************************************)
(* apiWatch traverse(value, seen): the walk of the deep getter over the    *)
(* watched value.  Objects are numbered; 0 stands for any primitive.  An   *)
(* edge <<o, m>> says that m is a property value, an array element, a Map  *)
(* value or a Set member of o, depending on the kind of o.  The recursion  *)
(* is run one call at a time on an explicit call stack.                    *)
(***************************************************************************)
MaxEdges == 3
MaxStack == 6

\* the kind of each object
ObjectKinds == <<"plain", "array", "Map", "Set">>
Objects == 1..Len(ObjectKinds)
Primitive == 0

isObject(value) == value # Primitive

\* what the loop over an object visits, in iteration order: value[i] of an
\* array, value.get(key) of a Map, the members of a Set, value[key] of a
\* plain object
RECURSIVE Ascending(_)
Ascending(S) ==
    IF S = {} THEN <<>>
    ELSE LET least == CHOOSE x \in S : \A y \in S : x <= y
         IN <<least>> \o Ascending(S \ {least})

iterated(edges, value) ==
    LET members == {e[2] : e \in {d \in edges : d[1] = value}}
    IN CASE ObjectKinds[value] = "array" -> Ascending(members)
         [] ObjectKinds[value] = "Map" -> Ascending(members)
         [] ObjectKinds[value] = "Set" -> Ascending(members)
         [] OTHER -> Ascending(members)

TraverseState == [seen |-> seen, callStack |-> callStack, visits |-> visits, phase |-> phase]

\* mutant: the guard only tests isObject
returnsEarly_NoSeen(st, value) == ~isObject(value)

\* if (!isObject(value) || seen.has(value)) return
returnsEarly(st, value) == ~isObject(value) \/ value \in st.seen

\* a call traverse(value, seen): return at once, or add value to seen and
\* start its loop; a call deeper than the engine allows throws a RangeError
traverseCall(st, value) ==
    IF returnsEarly(st, value) THEN st
    ELSE IF Len(st.callStack) >= MaxStack
         THEN [st EXCEPT !.phase = "overflow"]
         ELSE [st EXCEPT !.seen = @ \cup {value},
                         !.visits[value] = @ + 1,
                         !.callStack = Append(@, [value |-> value, next |-> 1])]

SetTraverseState(st) ==
    /\ seen' = st.seen
    /\ callStack' = st.callStack
    /\ visits' = st.visits
    /\ phase' = st.phase

\* every graph of at most MaxEdges edges over the objects, watched at any of
\* its objects or at a primitive
RECURSIVE EdgeSets(_)
EdgeSets(n) ==
    IF n = 0 THEN {{}}
    ELSE LET smaller == EdgeSets(n - 1)
         IN smaller \cup {s \cup {e} : s \in smaller,
                                      e \in Objects \X (Objects \cup {Primitive})}

InitTraverse ==
    /\ heap \in {[edges |-> e, root |-> r] :
                    e \in EdgeSets(MaxEdges), r \in Objects \cup {Primitive}}
    /\ seen = {}
    /\ callStack = <<>>
    /\ visits = [o \in Objects |-> 0]
    /\ phase = "ready"

IdleTraverse ==
    /\ heap = [edges |-> {}, root |-> Primitive]
    /\ seen = {}
    /\ callStack = <<>>
    /\ visits = [o \in Objects |-> 0]
    /\ phase = "ready"

\* getter = () => traverse(baseGetter()): the outermost call, seen = new Set()
RunGetter ==
    /\ phase = "ready"
    /\ LET st == traverseCall([TraverseState EXCEPT !.phase = "running"], heap.root)
       IN SetTraverseState(IF st.callStack = <<>> /\ st.phase = "running"
                           THEN [st EXCEPT !.phase = "done"]
                           ELSE st)
    /\ UNCHANGED heap
    /\ UNCHANGED travRest

\* one iteration of the loop of the innermost call: traverse(member, seen)
TraverseMember ==
    /\ phase = "running"
    /\ callStack # <<>>
    /\ LET n == Len(callStack)
           top == callStack[n]
           members == iterated(heap.edges, top.value)
       IN /\ top.next <= Len(members)
          /\ SetTraverseState(
                 traverseCall([TraverseState EXCEPT !.callStack[n].next = @ + 1],
                              members[top.next]))
    /\ UNCHANGED heap
    /\ UNCHANGED travRest

\* the loop of the innermost call is over: return value
TraverseReturn ==
    /\ phase = "running"
    /\ callStack # <<>>
    /\ LET n == Len(callStack)
       IN /\ callStack[n].next > Len(iterated(heap.edges, callStack[n].value))
          /\ callStack' = SubSeq(callStack, 1, n - 1)
          /\ phase' = IF n = 1 THEN "done" ELSE "running"
    /\ UNCHANGED <<heap, seen, visits>>
    /\ UNCHANGED travRest

NextTraverse ==
    \/ RunGetter
    \/ TraverseMember
    \/ TraverseReturn

\* ---- C27 ----
\* the objects reachable from the watched value
RECURSIVE C27_Reach(_)
C27_Reach(S) ==
    LET more == S \cup {e[2] : e \in {d \in heap.edges : d[1] \in S}}
    IN IF more = S THEN S ELSE C27_Reach(more)

C27_Reachable == C27_Reach({heap.root}) \ {Primitive}

\* C27: on every finite object graph, cycles and shared members included,
\* the traversal of the deep getter ends, and it goes past its guard at most
\* once for each object
C27_TerminatesVisitingOnce ==
    /\ [](\A o \in Objects : visits[o] <= 1)
    /\ <>(phase = "done")

\* the traversal is over on a graph in which a Map is a value of a plain
\* object and a member of a Set, and lies on a cycle with that Set; each of
\* the three was visited once
C27_Witness ==
    /\ phase = "done"
    /\ heap.root = 1
    /\ heap.edges = {<<1, 3>>, <<3, 4>>, <<4, 3>>}
    /\ C27_Reachable = {1, 3, 4}
    /\ \A o \in C27_Reachable : visits[o] = 1

\* ---- C29 ----
\* how often the cleanup of registration id has been invoked
C29_Invocations(id) ==
    Cardinality({i \in 1..Len(wlog) : wlog[i].e = "cleanup" /\ wlog[i].id = id})

\* C29: for a watcher with a callback, the cleanup of each registration is
\* invoked at most once, whether before a callback invocation or at stop
C29_CleanupOncePerRegistration ==
    (watcher.created /\ watcher.cb) =>
        \A i \in 1..Len(wlog) :
            wlog[i].e = "register" => C29_Invocations(wlog[i].id) <= 1

\* a cleanup registered once by the callback was invoked before the next
\* callback invocation and then again, with no registration in between
C29_InvokedAgain ==
    /\ watcher.created /\ watcher.cb
    /\ \E i, j \in 1..Len(wlog) :
          /\ i < j
          /\ wlog[i].e = "cleanup" /\ wlog[j].e = "cleanup"
          /\ wlog[i].id = wlog[j].id
          /\ \A k \in i..j : wlog[k].e # "register"
          /\ \E k \in i..j : wlog[k].e = "cb"

\* ---- C30 ----
\* C30: if a write of a value to a key through the render proxy was accepted,
\* the read of that key that immediately follows returns the value
C30_ReadsBackAcceptedWrite ==
    (lastSet.n > 0 /\ lastSet.ok /\ lastGet.done /\ lastGet.key = lastSet.key) =>
        lastGet.result = Stored(lastSet.value)

\* the write of 2 to $el was accepted and stored in the user bucket, and the
\* read of $el that follows returns the element of the instance's vnode
C30_ElNotReadBack ==
    /\ lastSet.n > 0 /\ lastSet.ok
    /\ lastSet.key = <<"$","e","l">>
    /\ lastSet.value = 2
    /\ proxyInst.user[<<"$","e","l">>] = 2
    /\ lastGet.done /\ lastGet.key = lastSet.key
    /\ lastGet.result = FieldOf("vnode.el")

(***************************************************************************)
(* Specifications: each subsystem runs on its own variables while the   *)
(* others rest in their initial state.                                     *)
(***************************************************************************)
vars == <<propsVars, vnodeVars, bufVars, ssrVars, watchVars, asyncVars, proxyVars, helpersVars, vforVars, errorsVars, sfcVars, mergeVars, genVars, travVars>>

StartProps ==
    /\ InitProps
    /\ IdleVNode
    /\ IdleBuffer
    /\ IdleSSR
    /\ IdleWatch
    /\ IdleAsync
    /\ IdleProxy
    /\ IdleHelpers
    /\ IdleFor
    /\ IdleErrors
    /\ IdleSfc
    /\ IdleMerge
    /\ IdleGen
    /\ IdleTraverse

SpecProps == StartProps /\ [][NextProps]_vars

StartUpdate ==
    /\ InitUpdate
    /\ IdleVNode
    /\ IdleBuffer
    /\ IdleSSR
    /\ IdleWatch
    /\ IdleAsync
    /\ IdleProxy
    /\ IdleHelpers
    /\ IdleFor
    /\ IdleErrors
    /\ IdleSfc
    /\ IdleMerge
    /\ IdleGen
    /\ IdleTraverse

SpecUpdate == StartUpdate /\ [][NextUpdate]_vars

StartVNode ==
    /\ InitVNode
    /\ IdleProps
    /\ IdleBuffer
    /\ IdleSSR
    /\ IdleWatch
    /\ IdleAsync
    /\ IdleProxy
    /\ IdleHelpers
    /\ IdleFor
    /\ IdleErrors
    /\ IdleSfc
    /\ IdleMerge
    /\ IdleGen
    /\ IdleTraverse

SpecVNode == StartVNode /\ [][NextVNode]_vars

StartReuse ==
    /\ InitReuse
    /\ IdleProps
    /\ IdleBuffer
    /\ IdleSSR
    /\ IdleWatch
    /\ IdleAsync
    /\ IdleProxy
    /\ IdleHelpers
    /\ IdleFor
    /\ IdleErrors
    /\ IdleSfc
    /\ IdleMerge
    /\ IdleGen
    /\ IdleTraverse

SpecReuse == StartReuse /\ [][NextReuse]_vars

StartBuffer ==
    /\ InitBuffer
    /\ IdleProps
    /\ IdleVNode
    /\ IdleSSR
    /\ IdleWatch
    /\ IdleAsync
    /\ IdleProxy
    /\ IdleHelpers
    /\ IdleFor
    /\ IdleErrors
    /\ IdleSfc
    /\ IdleMerge
    /\ IdleGen
    /\ IdleTraverse

SpecBuffer == StartBuffer /\ [][NextBuffer]_vars

StartSSR ==
    /\ InitSSR
    /\ IdleProps
    /\ IdleVNode
    /\ IdleBuffer
    /\ IdleWatch
    /\ IdleAsync
    /\ IdleProxy
    /\ IdleHelpers
    /\ IdleFor
    /\ IdleErrors
    /\ IdleSfc
    /\ IdleMerge
    /\ IdleGen
    /\ IdleTraverse

SpecSSR == StartSSR /\ [][NextSSR]_vars

StartWatch ==
    /\ InitWatch
    /\ IdleProps
    /\ IdleVNode
    /\ IdleBuffer
    /\ IdleSSR
    /\ IdleAsync
    /\ IdleProxy
    /\ IdleHelpers
    /\ IdleFor
    /\ IdleErrors
    /\ IdleSfc
    /\ IdleMerge
    /\ IdleGen
    /\ IdleTraverse

SpecWatch == StartWatch /\ [][NextWatch]_vars

StartAsync ==
    /\ InitAsync
    /\ IdleProps
    /\ IdleVNode
    /\ IdleBuffer
    /\ IdleSSR
    /\ IdleWatch
    /\ IdleProxy
    /\ IdleHelpers
    /\ IdleFor
    /\ IdleErrors
    /\ IdleSfc
    /\ IdleMerge
    /\ IdleGen
    /\ IdleTraverse

SpecAsync == StartAsync /\ [][NextAsync]_vars

StartProxy ==
    /\ InitProxy
    /\ IdleProps
    /\ IdleVNode
    /\ IdleBuffer
    /\ IdleSSR
    /\ IdleWatch
    /\ IdleAsync
    /\ IdleHelpers
    /\ IdleFor
    /\ IdleErrors
    /\ IdleSfc
    /\ IdleMerge
    /\ IdleGen
    /\ IdleTraverse

SpecProxy == StartProxy /\ [][NextProxy]_vars

StartHelpers ==
    /\ InitHelpers
    /\ IdleProps
    /\ IdleVNode
    /\ IdleBuffer
    /\ IdleSSR
    /\ IdleWatch
    /\ IdleAsync
    /\ IdleProxy
    /\ IdleFor
    /\ IdleErrors
    /\ IdleSfc
    /\ IdleMerge
    /\ IdleGen
    /\ IdleTraverse

SpecHelpers == StartHelpers /\ [][NextHelpers]_vars

StartFor ==
    /\ InitFor
    /\ IdleProps
    /\ IdleVNode
    /\ IdleBuffer
    /\ IdleSSR
    /\ IdleWatch
    /\ IdleAsync
    /\ IdleProxy
    /\ IdleHelpers
    /\ IdleErrors
    /\ IdleSfc
    /\ IdleMerge
    /\ IdleGen
    /\ IdleTraverse

SpecFor == StartFor /\ [][NextFor]_vars

StartErrors ==
    /\ InitErrors
    /\ IdleProps
    /\ IdleVNode
    /\ IdleBuffer
    /\ IdleSSR
    /\ IdleWatch
    /\ IdleAsync
    /\ IdleProxy
    /\ IdleHelpers
    /\ IdleFor
    /\ IdleSfc
    /\ IdleMerge
    /\ IdleGen
    /\ IdleTraverse

SpecErrors == StartErrors /\ [][NextErrors]_vars

StartSfc ==
    /\ InitSfc
    /\ IdleProps
    /\ IdleVNode
    /\ IdleBuffer
    /\ IdleSSR
    /\ IdleWatch
    /\ IdleAsync
    /\ IdleProxy
    /\ IdleHelpers
    /\ IdleFor
    /\ IdleErrors
    /\ IdleMerge
    /\ IdleGen
    /\ IdleTraverse

SpecSfc == StartSfc /\ [][NextSfc]_vars

StartDecl ==
    /\ InitDecl
    /\ IdleProps
    /\ IdleVNode
    /\ IdleBuffer
    /\ IdleSSR
    /\ IdleWatch
    /\ IdleAsync
    /\ IdleProxy
    /\ IdleHelpers
    /\ IdleFor
    /\ IdleErrors
    /\ IdleMerge
    /\ IdleGen
    /\ IdleTraverse

SpecDecl == StartDecl /\ [][NextDecl]_vars

StartMerge ==
    /\ InitMerge
    /\ IdleProps
    /\ IdleVNode
    /\ IdleBuffer
    /\ IdleSSR
    /\ IdleWatch
    /\ IdleAsync
    /\ IdleProxy
    /\ IdleHelpers
    /\ IdleFor
    /\ IdleErrors
    /\ IdleSfc
    /\ IdleGen
    /\ IdleTraverse

SpecMerge == StartMerge /\ [][NextMerge]_vars

StartPush ==
    /\ InitPush
    /\ IdleProps
    /\ IdleVNode
    /\ IdleBuffer
    /\ IdleSSR
    /\ IdleWatch
    /\ IdleAsync
    /\ IdleProxy
    /\ IdleHelpers
    /\ IdleFor
    /\ IdleErrors
    /\ IdleSfc
    /\ IdleMerge
    /\ IdleTraverse

SpecPush == StartPush /\ [][NextPush]_vars

StartCodegen ==
    /\ InitCodegen
    /\ IdleProps
    /\ IdleVNode
    /\ IdleBuffer
    /\ IdleSSR
    /\ IdleWatch
    /\ IdleAsync
    /\ IdleProxy
    /\ IdleHelpers
    /\ IdleFor
    /\ IdleErrors
    /\ IdleSfc
    /\ IdleMerge
    /\ IdleTraverse

SpecCodegen == StartCodegen /\ [][NextCodegen]_vars

StartTraverse ==
    /\ InitTraverse
    /\ IdleProps
    /\ IdleVNode
    /\ IdleBuffer
    /\ IdleSSR
    /\ IdleWatch
    /\ IdleAsync
    /\ IdleProxy
    /\ IdleHelpers
    /\ IdleFor
    /\ IdleErrors
    /\ IdleSfc
    /\ IdleMerge
    /\ IdleGen

SpecTraverse == StartTraverse /\ [][NextTraverse]_vars /\ WF_vars(NextTraverse)

====
